---- MODULE Spec2Model ----
(***************************************************************************)
(* A model of the acheron allocator (include/acheron/allocator.hpp):       *)
(* size classes, the arena (bump path and two-level free bitmap), the      *)
(* arena pool and the allocator front-end, under the local and the shared  *)
(* policy.                                                                 *)
(*                                                                         *)
(* The geometry is scaled down so that the state space is finite and       *)
(* small: words hold WordBits bits instead of 64, an L1 bit summarises     *)
(* l2_per_l1 L2 words instead of 64, an arena region has arena_size bytes  *)
(* instead of 64 MiB, there are num_size_classes classes instead of 20     *)
(* and max_arenas arenas per pool instead of 16, and size_t has SizeBits   *)
(* bits instead of 64.  With these values the three classes 8, 16 and 32   *)
(* reproduce the cases of the real table: class 8 divides the usable       *)
(* capacity exactly and has several L1 bits (as 8..32 do), classes 16 and  *)
(* 32 leave a trailing partial block (as 64..4 MiB do) and have a single   *)
(* L1 bit (as 16 KiB..4 MiB do).                                           *)
(***************************************************************************)
EXTENDS Integers, Sequences, FiniteSets, TLC

(***************************************************************************)
(* Scaled program constants and model bounds                               *)
(***************************************************************************)
\* bits of a bitmap word (std::uint64_t: 64)
WordBits == 2
\* bytes of a bitmap word, sizeof(std::uint64_t)
WordBytes == 8
\* arena<P>::l2_per_l1 (64)
l2_per_l1 == 2
\* arena<P>::arena_size in units of max_size (64 MiB = 16 * 4 MiB)
ArenaBlocks == 2
\* arena_pool<P>::max_arenas (16)
max_arenas == 2
\* size_class_manager::min_size
min_size == 8
\* size_class_manager::num_size_classes (20)
num_size_classes == 3
\* size_class_manager::max_size (4 MiB = min_size << 19)
max_size == min_size * (2 ^ (num_size_classes - 1))
\* arena<P>::arena_size, a multiple of every block size
arena_size == ArenaBlocks * max_size
\* bits of std::size_t and of an address (64)
SizeBits == 10
SizeMod == 2 ^ SizeBits
\* the OS maps whole pages at page-aligned addresses
PageSize == 2 * min_size
\* the bitmap path is followed at most this many times per arena
MaxAllocCount == 2
\* at most this many direct OS allocations are live at once
MaxLarge == 1
\* at most this many of the mmaps of get_pools fail
MaxPoolFailures == 1
\* the number of threads in the specifications with several threads
NumThreads == 2
\* the number of calls each thread makes in SpecSharedFair
MaxCalls == 3

\* nullptr, and the null pool / arena pointer
NullPtr == 0
NoArena == [self |-> 0, base_addr |-> 0, block_size |-> 0, bump_offset |-> 0,
            alloc_count |-> 0, l1 |-> <<>>, l2 |-> <<>>]

Min(S) == CHOOSE x \in S : \A y \in S : x <= y

(***************************************************************************)
(* size_class_manager                                                      *)
(***************************************************************************)
RECURSIVE bit_width(_)
\* std::bit_width: the number of bits needed to represent x
bit_width(x) == IF x = 0 THEN 0 ELSE 1 + bit_width(x \div 2)

\* a rounding that sends max_size itself to the OS (C11 depends on the
\* comparison with max_size being strict)
round_to_size_class_strict(size) ==
    IF size <= min_size THEN min_size
    ELSE IF size >= max_size THEN 0
    ELSE 2 ^ bit_width(size - 1)

\* size_class_manager::round_to_size_class
round_to_size_class(size) ==
    IF size <= min_size THEN min_size
    ELSE IF size > max_size THEN 0
    ELSE 2 ^ bit_width(size - 1)

\* an index that subtracts the width of min_size instead of min_size - 1
\* (C12 depends on the two widths being taken of size - 1 and min_size - 1)
size_to_index_width(size) ==
    IF size <= min_size THEN 0
    ELSE bit_width(size - 1) - bit_width(min_size)

\* size_class_manager::size_to_index
size_to_index(size) ==
    IF size <= min_size THEN 0
    ELSE bit_width(size - 1) - bit_width(min_size - 1)

(***************************************************************************)
(* arena: the geometry computed by the constructor                         *)
(***************************************************************************)
theoretical_blocks(bs) == arena_size \div bs
l2_words(bs) == (theoretical_blocks(bs) + (WordBits - 1)) \div WordBits
l1_bits(bs) == (l2_words(bs) + l2_per_l1 - 1) \div l2_per_l1
l1_words(bs) == (l1_bits(bs) + (WordBits - 1)) \div WordBits
bitmap_bytes(bs) == (l2_words(bs) + l1_words(bs)) * WordBytes
usable_capacity(bs) == arena_size - bitmap_bytes(bs)
num_blocks(bs) == usable_capacity(bs) \div bs

\* A bitmap word is the set of its set bit positions, 0 .. WordBits - 1.
\* A bitmap is a sequence of words; word index i of the code is i + 1 here.
ZeroWords(n) == [i \in 1..n |-> {}]

\* new (arena_mem) arena(block_sz), given the address mmap returned for the
\* region; self is the address of the object, the value of the pointer
arena_new(arena_mem, bs, base) ==
    [self |-> arena_mem, base_addr |-> base, block_size |-> bs, bump_offset |-> 0,
     alloc_count |-> 0,
     l1 |-> ZeroWords(l1_words(bs)), l2 |-> ZeroWords(l2_words(bs))]

\* arena::update_l1_for_region
update_l1_for_region(a, l1_bit_index) ==
    LET bs == a.block_size
        l2_region_start == l1_bit_index * l2_per_l1
        has_free == \E i \in 0..(l2_per_l1 - 1) :
                       /\ l2_region_start + i < l2_words(bs)
                       /\ a.l2[l2_region_start + i + 1] # {}
        l1_word == l1_bit_index \div WordBits
        l1_bit == l1_bit_index % WordBits
    IN  IF has_free
        THEN [a EXCEPT !.l1[l1_word + 1] = @ \cup {l1_bit}]
        ELSE [a EXCEPT !.l1[l1_word + 1] = @ \ {l1_bit}]

\* arena::mark_free
mark_free(a, block_index) ==
    LET l2_idx == block_index \div WordBits
        bit == block_index % WordBits
        l1_bit == l2_idx \div l2_per_l1
        l1_word == l1_bit \div WordBits
        l1_offset == l1_bit % WordBits
    IN  [a EXCEPT !.l2[l2_idx + 1] = @ \cup {bit},
                  !.l1[l1_word + 1] = @ \cup {l1_offset}]

\* arena::pointer_to_block_index: the subtraction is unsigned
pointer_to_block_index(a, ptr) ==
    ((ptr - a.base_addr) % SizeMod) \div a.block_size

\* an ownership test whose subtraction is signed (C16 depends on the
\* wrap-around of the unsigned subtraction)
owns_signed(a, ptr) ==
    (ptr - a.base_addr) < usable_capacity(a.block_size)

\* arena::owns
owns(a, ptr) ==
    ((ptr - a.base_addr) % SizeMod) < usable_capacity(a.block_size)

\* arena::is_full
is_full(a) ==
    IF a.bump_offset < usable_capacity(a.block_size) THEN FALSE
    ELSE \A i \in 1..l1_words(a.block_size) : a.l1[i] = {}

\* arena::deallocate
arena_deallocate(a, ptr) == mark_free(a, pointer_to_block_index(a, ptr))

RECURSIVE ScanL2(_, _, _)
\* try_bitmap_allocate, the loop over the L2 words j .. l2_per_l1 - 1 of the
\* region of L1 bit l1_index (local policy).  The result is the arena and the
\* pointer; a null pointer says the region gave nothing (the loop ended or
\* was left by break) and the search goes on with the next L1 word.
ScanL2(a, l1_index, j) ==
    LET bs == a.block_size
        l2_idx == l1_index * l2_per_l1 + j
    IN  IF j >= l2_per_l1 \/ l2_idx >= l2_words(bs)
        THEN [arena |-> a, ptr |-> NullPtr]
        ELSE LET l2_word == a.l2[l2_idx + 1]
             IN  IF l2_word = {}
                 THEN ScanL2(a, l1_index, j + 1)
                 ELSE LET bit == Min(l2_word)
                          block_index == l2_idx * WordBits + bit
                          cleared == [a EXCEPT !.l2[l2_idx + 1] = @ \ {bit}]
                      IN  IF block_index >= num_blocks(bs)
                          THEN [arena |-> a, ptr |-> NullPtr]
                          ELSE [arena |->
                                  IF cleared.l2[l2_idx + 1] = {}
                                  THEN update_l1_for_region(cleared, l1_index)
                                  ELSE cleared,
                                ptr |-> a.base_addr + block_index * bs]

RECURSIVE ScanL1(_, _, _, _)
\* try_bitmap_allocate, the loop over the L1 words i .. l1_words - 1
ScanL1(a, i, l1_word_idx, l1_bit_offset) ==
    LET bs == a.block_size
    IN  IF i >= l1_words(bs)
        THEN [arena |-> a, ptr |-> NullPtr]
        ELSE LET idx == (l1_word_idx + i) % l1_words(bs)
                 word == a.l1[idx + 1]
                 l1_word == IF i = 0 /\ l1_bit_offset # 0
                            THEN {b \in word : b >= l1_bit_offset}
                            ELSE word
             IN  IF l1_word = {}
                 THEN ScanL1(a, i + 1, l1_word_idx, l1_bit_offset)
                 ELSE LET l1_index == idx * WordBits + Min(l1_word)
                          r == ScanL2(a, l1_index, 0)
                      IN  IF r.ptr # NullPtr
                          THEN r
                          ELSE ScanL1(a, i + 1, l1_word_idx, l1_bit_offset)

\* arena::try_bitmap_allocate
try_bitmap_allocate(a) ==
    LET counter == a.alloc_count
        counted == [a EXCEPT !.alloc_count = (@ + 1) % SizeMod]
        start_l1_bit == counter % l1_bits(a.block_size)
    IN  ScanL1(counted, 0, start_l1_bit \div WordBits, start_l1_bit % WordBits)

\* an arena that looks for a freed block before it bumps (C4 depends on the
\* order of the two paths)
arena_allocate_bitmap_first(a) ==
    LET r == try_bitmap_allocate(a)
    IN  IF r.ptr # NullPtr THEN r
        ELSE IF a.bump_offset < usable_capacity(a.block_size)
        THEN [arena |-> [r.arena EXCEPT !.bump_offset = @ + a.block_size],
              ptr |-> a.base_addr + a.bump_offset]
        ELSE r

\* an arena whose bump path advances by min_size instead of block_size (C13
\* depends on the bump offset being a multiple of block_size)
arena_allocate_bump_min(a) ==
    IF a.bump_offset < usable_capacity(a.block_size)
    THEN [arena |-> [a EXCEPT !.bump_offset = @ + min_size],
          ptr |-> a.base_addr + a.bump_offset]
    ELSE try_bitmap_allocate(a)

\* an arena whose bump path counts the call in alloc_count (C38 depends on
\* the bump path leaving the counter alone)
arena_allocate_counted(a) ==
    IF a.bump_offset < usable_capacity(a.block_size)
    THEN [arena |-> [a EXCEPT !.bump_offset = @ + a.block_size,
                              !.alloc_count = (@ + 1) % SizeMod],
          ptr |-> a.base_addr + a.bump_offset]
    ELSE try_bitmap_allocate(a)

\* arena::allocate.  Run without interference the CAS loop of the shared
\* policy succeeds at once and has the effect of the plain update of the
\* local policy.
arena_allocate(a) ==
    IF a.bump_offset < usable_capacity(a.block_size)
    THEN [arena |-> [a EXCEPT !.bump_offset = @ + a.block_size],
          ptr |-> a.base_addr + a.bump_offset]
    ELSE try_bitmap_allocate(a)

(***************************************************************************)
(* The operating system: mmap / munmap                                     *)
(***************************************************************************)
\* A mapping is [kind, addr, len]; kind is "pool" (an arena_pool object),
\* "arena" (an arena object), "region" (an arena's memory) or "large" (a
\* direct allocation of the front-end).
sizeof_pool_type == PageSize
sizeof_arena_type == PageSize
PageSpan(len) == ((len + PageSize - 1) \div PageSize) * PageSize
FreeAt(mapped, addr, len) ==
    /\ addr + PageSpan(len) <= SizeMod
    /\ \A m \in mapped : \/ addr + PageSpan(len) <= m.addr
                         \/ m.addr + PageSpan(m.len) <= addr
RECURSIVE FirstFit(_, _, _)
\* the lowest page-aligned address from a on where len bytes are free, or
\* NullPtr when the address space has no room
FirstFit(mapped, len, a) ==
    IF a + PageSpan(len) > SizeMod THEN NullPtr
    ELSE IF FreeAt(mapped, a, len) THEN a
    ELSE FirstFit(mapped, len, a + PageSize)
\* Where the OS starts to look for room for a mapping.  The OS is free to
\* place a mapping anywhere; this one keeps the objects, the regions and the
\* direct allocations apart, each kind packed from its own start (page 0 is
\* never mapped, so no mapping has the null address).
ZoneStart(kind) ==
    CASE kind = "pool" -> PageSize
      [] kind = "arena" -> PageSize * (1 + num_size_classes)
      [] kind = "region" -> PageSize * (1 + num_size_classes + max_arenas)
      [] OTHER -> PageSize * (1 + num_size_classes + max_arenas)
                    + max_arenas * PageSpan(arena_size)
\* the address mmap(nullptr, len, ...) returns when it succeeds
MmapAddr(mapped, kind, len) == FirstFit(mapped, len, ZoneStart(kind))
\* mmap(nullptr, len, ...) has room
CanMap(mapped, kind, len) == MmapAddr(mapped, kind, len) # NullPtr
Mmap(mapped, kind, len) ==
    mapped \cup {[kind |-> kind, addr |-> MmapAddr(mapped, kind, len), len |-> len]}
\* munmap(addr, len)
Munmap(mapped, addr, len) ==
    {m \in mapped : ~(addr <= m.addr /\ m.addr + PageSpan(m.len) <= addr + PageSpan(len))}

(***************************************************************************)
(* arena_pool                                                              *)
(***************************************************************************)
NoPool == [block_size |-> 0, arenas |-> <<>>, num_arenas |-> 0, current_arena |-> 0]

\* arena_pool::arena_pool(block_sz)
pool_new(block_sz) ==
    [block_size |-> block_sz, arenas |-> [i \in 1..max_arenas |-> NoArena],
     num_arenas |-> 0, current_arena |-> 0]

\* The result of arena_pool::allocate: the pool and the mappings after the
\* call, the pointer returned, how the call ended ("return", or "terminate"
\* when the arena constructor throws inside the noexcept function), and the
\* kinds of mapping whose mmap failed during the call.
PoolResult(p, mapped, ptr, how, failed) ==
    [pool |-> p, mapped |-> mapped, ptr |-> ptr, how |-> how, failed |-> failed]

\* arena_pool::allocate, the first step: the arena at current_arena
TryCurrent(p) ==
    IF p.current_arena < p.num_arenas
    THEN LET r == arena_allocate(p.arenas[p.current_arena + 1])
         IN  [pool |-> [p EXCEPT !.arenas[p.current_arena + 1] = r.arena],
              ptr |-> r.ptr]
    ELSE [pool |-> p, ptr |-> NullPtr]

RECURSIVE ScanOthers(_, _, _, _)
\* arena_pool::allocate, the second step: the other arenas in index order
ScanOthers(p, i, num, current_idx) ==
    IF i >= num THEN [pool |-> p, ptr |-> NullPtr]
    ELSE IF i = current_idx THEN ScanOthers(p, i + 1, num, current_idx)
    ELSE LET r == arena_allocate(p.arenas[i + 1])
             q == [p EXCEPT !.arenas[i + 1] = r.arena]
         IN  IF r.ptr # NullPtr
             THEN [pool |-> [q EXCEPT !.current_arena = i], ptr |-> r.ptr]
             ELSE ScanOthers(q, i + 1, num, current_idx)

\* a bound that stops growth one arena too late (C2 depends on the bound)
AtArenaLimitLate(num) == num > max_arenas
\* the bound that stops growth
AtArenaLimit(num) == num >= max_arenas

\* arena_pool::allocate, the third step under the local policy.  okObj and
\* okRegion say whether the mmap of the arena object and of its region
\* succeed.
GrowLocal(p, mapped, num, okObj, okRegion) ==
    IF AtArenaLimit(num) THEN PoolResult(p, mapped, NullPtr, "return", {})
    ELSE IF ~(okObj /\ CanMap(mapped, "arena", sizeof_arena_type))
    THEN PoolResult(p, mapped, NullPtr, "return", {"arena"})
    ELSE LET m1 == Mmap(mapped, "arena", sizeof_arena_type)
         IN  IF ~(okRegion /\ CanMap(m1, "region", arena_size))
             THEN PoolResult(p, m1, NullPtr, "terminate", {"region"})
             ELSE LET a == arena_new(MmapAddr(mapped, "arena", sizeof_arena_type),
                                         p.block_size,
                                         MmapAddr(m1, "region", arena_size))
                      r == arena_allocate(a)
                  IN  PoolResult([p EXCEPT !.arenas[num + 1] = r.arena,
                                           !.current_arena = num,
                                           !.num_arenas = @ + 1],
                                 Mmap(m1, "region", arena_size), r.ptr, "return", {})

\* a rollback that takes back more than the slot it reserved (C15 depends on
\* the rollback undoing exactly one reservation)
RollBackTwo(p) == [p EXCEPT !.num_arenas = @ - 2]
\* what a failed growth does to num_arenas after the CAS that reserved the
\* slot: num_arenas.fetch_sub(1)
RollBack(p) == [p EXCEPT !.num_arenas = @ - 1]

\* arena_pool::allocate, the third step under the shared policy, run without
\* interference: the CAS on num_arenas succeeds.
GrowShared(p, mapped, num, okObj, okRegion) ==
    IF AtArenaLimit(num) THEN PoolResult(p, mapped, NullPtr, "return", {})
    ELSE LET reserved == [p EXCEPT !.num_arenas = num + 1]
         IN  IF ~(okObj /\ CanMap(mapped, "arena", sizeof_arena_type))
             THEN PoolResult(RollBack(reserved), mapped, NullPtr, "return", {"arena"})
             ELSE LET m1 == Mmap(mapped, "arena", sizeof_arena_type)
                  IN  IF ~(okRegion /\ CanMap(m1, "region", arena_size))
                      THEN PoolResult(reserved, m1, NullPtr, "terminate", {"region"})
                      ELSE LET a == arena_new(MmapAddr(mapped, "arena", sizeof_arena_type),
                                         p.block_size,
                                         MmapAddr(m1, "region", arena_size))
                               r == arena_allocate(a)
                           IN  PoolResult([reserved EXCEPT !.arenas[num + 1] = r.arena,
                                                           !.current_arena = num],
                                          Mmap(m1, "region", arena_size), r.ptr, "return", {})

\* arena_pool::allocate
pool_allocate(P, p, mapped, okObj, okRegion) ==
    LET current_idx == p.current_arena
        num == p.num_arenas
        r1 == TryCurrent(p)
        r2 == ScanOthers(r1.pool, 0, num, current_idx)
    IN  IF r1.ptr # NullPtr THEN PoolResult(r1.pool, mapped, r1.ptr, "return", {})
        ELSE IF r2.ptr # NullPtr THEN PoolResult(r2.pool, mapped, r2.ptr, "return", {})
        ELSE IF P = "shared" THEN GrowShared(r2.pool, mapped, num, okObj, okRegion)
        ELSE GrowLocal(r2.pool, mapped, num, okObj, okRegion)

RECURSIVE FindOwner(_, _, _, _)
\* arena_pool::deallocate, the loop from arena i on
FindOwner(p, ptr, i, num) ==
    IF i >= num THEN p
    ELSE IF p.arenas[i + 1] # NoArena /\ owns(p.arenas[i + 1], ptr)
    THEN [p EXCEPT !.arenas[i + 1] = arena_deallocate(@, ptr)]
    ELSE FindOwner(p, ptr, i + 1, num)

\* arena_pool::deallocate
pool_deallocate(p, ptr) == FindOwner(p, ptr, 0, p.num_arenas)

\* The result of a destructor: the mappings after it and the munmap calls
\* made so far, each with whether it hit a mapping that existed.
Unmapped(mapped, addr, len) ==
    [addr |-> addr, len |-> len,
     hit |-> \E m \in mapped : m.addr = addr /\ m.len = len]

\* an arena destructor that keeps the region (C14 depends on the munmap)
arena_destroy_keep(a, mapped, log) == [mapped |-> mapped, unmaps |-> log]
\* arena::~arena.  base_addr is never MAP_FAILED in a constructed arena: the
\* constructor throws when the mmap fails.
arena_destroy(a, mapped, log) ==
    [mapped |-> Munmap(mapped, a.base_addr, arena_size),
     unmaps |-> Append(log, Unmapped(mapped, a.base_addr, arena_size))]

RECURSIVE DestroyArenas(_, _, _, _, _)
\* arena_pool::~arena_pool, the loop from slot i on
DestroyArenas(p, mapped, log, i, count) ==
    IF i >= count THEN [mapped |-> mapped, unmaps |-> log]
    ELSE IF p.arenas[i + 1] = NoArena
    THEN DestroyArenas(p, mapped, log, i + 1, count)
    ELSE LET a == p.arenas[i + 1]
             d == arena_destroy(a, mapped, log)
         IN  DestroyArenas(p, Munmap(d.mapped, a.self, sizeof_arena_type),
                           Append(d.unmaps, Unmapped(d.mapped, a.self, sizeof_arena_type)),
                           i + 1, count)

\* arena_pool::~arena_pool
pool_destroy(p, mapped) == DestroyArenas(p, mapped, <<>>, 0, p.num_arenas)

(***************************************************************************)
(* allocator<T, P>: the front-end                                          *)
(***************************************************************************)
\* The element types T the model instantiates the allocator with, as
\* [size |-> sizeof(T), align |-> alignof(T)].
ElemTypes == {[size |-> 8, align |-> 8], [size |-> 12, align |-> 4],
              [size |-> 32, align |-> 16]}
\* The counts n passed to allocate and deallocate: none, one element, and a
\* count whose bytes exceed max_size for every element type.
LargeCount == (max_size \div min_size) + 1
Counts == {0, 1, LargeCount}

\* bytes = n * sizeof(T), rounded up to alignof(T), in size_t arithmetic
alloc_bytes(T, n) ==
    LET bytes == (n * T.size) % SizeMod
    IN  (((bytes + T.align - 1) % SizeMod) \div T.align) * T.align

\* the test that sends a request to the OS instead of a pool
is_large(size_class) == size_class = 0 \/ size_class > max_size

RECURSIVE InitPools(_, _, _, _)
\* get_pools, the construction loop from index i on; okPools is the set of
\* indices whose mmap succeeds.  A pool whose mmap fails stays null.
InitPools(pools, mapped, i, okPools) ==
    IF i >= num_size_classes THEN [pools |-> pools, mapped |-> mapped, failed |-> {}]
    ELSE LET size_class == min_size * (2 ^ i)
         IN  IF i \in okPools /\ CanMap(mapped, "pool", sizeof_pool_type)
             THEN InitPools([pools EXCEPT ![i + 1] = pool_new(size_class)],
                            Mmap(mapped, "pool", sizeof_pool_type), i + 1, okPools)
             ELSE LET r == InitPools(pools, mapped, i + 1, okPools)
                  IN  [r EXCEPT !.failed = {"pool"}]

\* allocator::get_pools, run without interference: the array of pools of
\* the calling thread (local) or of the process (shared), constructed on
\* the first call.
get_pools(inited, pools, mapped, okPools) ==
    IF inited THEN [pools |-> pools, mapped |-> mapped, failed |-> {}]
    ELSE InitPools(pools, mapped, 0, okPools)

\* the result of a front-end call: the storage after it, the pointer
\* returned, how the call ended ("return", "bad_alloc", "terminate" for
\* std::terminate, "segv" for a call through a null pool pointer), the path
\* taken ("zero", "os", "pool") and the kinds of mapping whose mmap failed.
FrontResult(inited, pools, mapped, ptr, how, path, failed) ==
    [initialized |-> inited, pools |-> pools, mapped |-> mapped, ptr |-> ptr,
     how |-> how, path |-> path, failed |-> failed]

\* an allocate that constructs the pools before it looks at n (C10 depends
\* on the early return)
AllocateZeroEager(inited, pools, mapped) ==
    LET g == get_pools(inited, pools, mapped, 0..(num_size_classes - 1))
    IN  FrontResult(TRUE, g.pools, g.mapped, NullPtr, "return", "zero", {})

\* allocator::allocate, when n == 0
AllocateZero(inited, pools, mapped) ==
    FrontResult(inited, pools, mapped, NullPtr, "return", "zero", {})

\* a direct allocation that maps whole pages instead of bytes (C9 depends on
\* the length passed to mmap)
AllocateLargeWholePages(inited, pools, mapped, bytes, okLarge) ==
    IF okLarge /\ CanMap(mapped, "large", bytes)
    THEN FrontResult(inited, pools, Mmap(mapped, "large", PageSpan(bytes)),
                     MmapAddr(mapped, "large", bytes), "return", "os", {})
    ELSE FrontResult(inited, pools, mapped, NullPtr, "bad_alloc", "os", {"large"})

\* allocator::allocate, the direct OS allocation of bytes
AllocateLarge(inited, pools, mapped, bytes, okLarge) ==
    IF okLarge /\ CanMap(mapped, "large", bytes)
    THEN FrontResult(inited, pools, Mmap(mapped, "large", bytes),
                     MmapAddr(mapped, "large", bytes), "return", "os", {})
    ELSE FrontResult(inited, pools, mapped, NullPtr, "bad_alloc", "os", {"large"})

\* allocator::allocate, the pool path
AllocatePooled(P, inited, pools, mapped, size_class, okPools, okObj, okRegion) ==
    LET index == size_to_index(size_class)
        g == get_pools(inited, pools, mapped, okPools)
    IN  IF g.pools[index + 1] = NoPool
        THEN FrontResult(TRUE, g.pools, g.mapped, NullPtr, "segv", "pool", g.failed)
        ELSE LET r == pool_allocate(P, g.pools[index + 1], g.mapped, okObj, okRegion)
                 ps == [g.pools EXCEPT ![index + 1] = r.pool]
                 failed == g.failed \cup r.failed
             IN  IF r.how = "terminate"
                 THEN FrontResult(TRUE, ps, r.mapped, NullPtr, "terminate", "pool", failed)
                 ELSE IF r.ptr = NullPtr
                 THEN FrontResult(TRUE, ps, r.mapped, NullPtr, "bad_alloc", "pool", failed)
                 ELSE FrontResult(TRUE, ps, r.mapped, r.ptr, "return", "pool", failed)

\* allocator::allocate
allocate(P, T, inited, pools, mapped, n, okPools, okObj, okRegion, okLarge) ==
    IF n = 0 THEN AllocateZero(inited, pools, mapped)
    ELSE LET bytes == alloc_bytes(T, n)
             size_class == round_to_size_class(bytes)
         IN  IF is_large(size_class)
             THEN AllocateLarge(inited, pools, mapped, bytes, okLarge)
             ELSE AllocatePooled(P, inited, pools, mapped, size_class,
                                 okPools, okObj, okRegion)

\* allocator::deallocate
deallocate(T, inited, pools, mapped, ptr, n, okPools) ==
    IF ptr = NullPtr \/ n = 0
    THEN FrontResult(inited, pools, mapped, NullPtr, "return", "zero", {})
    ELSE LET bytes == alloc_bytes(T, n)
             size_class == round_to_size_class(bytes)
         IN  IF is_large(size_class)
             THEN FrontResult(inited, pools, Munmap(mapped, ptr, bytes),
                              NullPtr, "return", "os", {})
             ELSE LET index == size_to_index(size_class)
                      g == get_pools(inited, pools, mapped, okPools)
                  IN  IF g.pools[index + 1] = NoPool
                      THEN FrontResult(TRUE, g.pools, g.mapped, NullPtr, "segv",
                                       "pool", g.failed)
                      ELSE FrontResult(TRUE,
                               [g.pools EXCEPT ![index + 1] = pool_deallocate(@, ptr)],
                               g.mapped, NullPtr, "return", "pool", g.failed)

(***************************************************************************)
(* Spec: one thread using one instantiation allocator<T, P>                *)
(***************************************************************************)
VARIABLES
    policy,       \* the template parameter P: "local" or "shared"
    elem,         \* the template parameter T
    initialized,  \* get_pools: the flag `initialized`
    pools,        \* get_pools: the array `pools`, index i of the code at i + 1
    mapped,       \* the mappings the OS holds for the process
    held,         \* the [ptr, n] the caller got from allocate and has not given back
    handed,       \* every pointer a pool has handed out so far
    last,         \* the last call and how it ended (of a call that did nothing
                  \* only that it was made)
    status,       \* "running", "exited", or how the process died
    th,           \* per thread: where it is in a call and the call's locals
                  \* (SpecShared, SpecInit)
    init_lock,    \* get_pools: the flag `init_lock` (SpecInit)
    calls,        \* per thread: the calls it has made so far (SpecSharedFair)
    um,           \* a unique_map object (SpecMap)
    present,      \* what the calls on um put in and did not take out: the
                  \* value of each key, 0 for a key that is not in (SpecMap)
    fl,           \* a freelist object (SpecFreelist)
    flu,          \* what the callers of fl did: the pops so far, the nodes
                  \* they hold, the nodes pushed and not popped since
    guards,       \* the defer objects of a scope (SpecDefer)
    acts          \* what became of the deferred actions: the invocations in
                  \* order, the actions made, those cancelled

vars == <<policy, elem, initialized, pools, mapped, held, handed, last, status,
          th, init_lock, calls, um, present, fl, flu,
          guards, acts>>
\* what the specifications of the allocator leave alone
Outside == <<um, present, fl, flu, guards, acts>>
\* no unique_map exists in the runs of the allocator
NoMap == <<>>
NoEntries == <<>>
\* no freelist exists in the runs of the allocator and of the map
NoFreelist == <<>>
NoUse == <<>>
\* no defer object exists in the runs of the allocator and of the containers
NoGuards == <<>>
NoActs == <<>>

\* the threads of SpecShared and SpecInit
Threads == 1..NumThreads
\* a thread that is in no call
IdleThread ==
    [pc |-> "idle", current_idx |-> 0, num |-> 0, i |-> 0, k |-> 0, cont |-> "none",
     offset |-> 0, li |-> 0, l1_word_idx |-> 0, l1_bit_offset |-> 0, l1_index |-> 0,
     j |-> 0, l2_word |-> {}, u |-> 0, has_free |-> FALSE, ptr |-> NullPtr,
     path |-> "none"]

NoCall == [op |-> "none", n |-> 0, ptr |-> NullPtr, how |-> "return",
           path |-> "zero", failed |-> {}, chain |-> 0]

ClassIndices == 0..(num_size_classes - 1)

\* before any thread has made a call
NoCalls == [t \in Threads |-> 0]

Init ==
    /\ policy \in {"local", "shared"}
    /\ elem \in ElemTypes
    /\ initialized = FALSE
    /\ pools = [i \in 1..num_size_classes |-> NoPool]
    /\ mapped = {}
    /\ held = {}
    /\ handed = {}
    /\ last = NoCall
    /\ status = "running"
    /\ th = [t \in Threads |-> IdleThread]
    /\ init_lock = FALSE
    /\ calls = NoCalls
    /\ um = NoMap
    /\ present = NoEntries
    /\ fl = NoFreelist
    /\ flu = NoUse
    /\ guards = NoGuards
    /\ acts = NoActs

\* the bounds of the model: alloc_count stays below MaxAllocCount, and at
\* most MaxLarge direct allocations are live
WithinBounds(n) ==
    /\ \A i \in 1..num_size_classes :
          pools[i] # NoPool =>
             \A k \in 1..max_arenas : pools[i].arenas[k].alloc_count < MaxAllocCount
    /\ (n # 0 /\ is_large(round_to_size_class(alloc_bytes(elem, n))))
          => Cardinality({m \in mapped : m.kind = "large"}) < MaxLarge

StatusAfter(how) ==
    CASE how = "terminate" -> "terminated"
      [] how = "segv" -> "segv"
      [] OTHER -> "running"

\* The OS may refuse any mmap.  The choices for the mmaps of get_pools: the
\* set of indices whose pool is mapped (they matter on the first call only).
PoolChoices ==
    IF initialized THEN {ClassIndices}
    ELSE {ok \in SUBSET ClassIndices :
             Cardinality(ClassIndices \ ok) <= MaxPoolFailures}

\* A call ptr = allocate(n).  Of the other mmaps a call makes (the arena
\* object, the arena region, a direct allocation) the first that fails ends
\* the call, so at most one of them fails in a call.
Allocate(n) ==
    /\ status = "running"
    /\ WithinBounds(n)
    /\ \E okPools \in PoolChoices, fail \in {"none", "arena", "region", "large"} :
       \E r \in {allocate(policy, elem, initialized, pools, mapped, n, okPools,
                            fail # "arena", fail # "region", fail # "large")} :
              /\ initialized' = r.initialized
              /\ pools' = r.pools
              /\ mapped' = r.mapped
              /\ held' = IF r.ptr # NullPtr
                         THEN held \cup {[ptr |-> r.ptr, n |-> n]} ELSE held
              /\ handed' = IF r.ptr # NullPtr /\ r.path = "pool"
                           THEN handed \cup {r.ptr} ELSE handed
              /\ last' = [op |-> "allocate", n |-> n, ptr |-> r.ptr, how |-> r.how,
                          path |-> r.path, failed |-> r.failed,
                          chain |-> IF r.path = "pool" /\ r.ptr # NullPtr
                                    THEN (IF last.chain = 2 /\ last.n = n
                                          THEN 3 ELSE 1)
                                    ELSE 0]
              /\ status' = StatusAfter(r.how)
    /\ UNCHANGED <<policy, elem, th, init_lock, calls, Outside>>

\* the arguments of the deallocate calls the caller may make: a pair it
\* holds, or a call with a null pointer or a zero count
DeallocArgs ==
    held \cup {[ptr |-> NullPtr, n |-> n] : n \in Counts}
         \cup {[ptr |-> h.ptr, n |-> 0] : h \in held}

\* a call deallocate(ptr, n)
Deallocate(arg) ==
    /\ status = "running"
    /\ \E okPools \in PoolChoices :
       \E r \in {deallocate(elem, initialized, pools, mapped, arg.ptr, arg.n, okPools)} :
              /\ initialized' = r.initialized
              /\ pools' = r.pools
              /\ mapped' = r.mapped
              /\ held' = held \ {arg}
              /\ last' = [op |-> "deallocate",
                          n |-> IF r.path = "zero" THEN 0 ELSE arg.n,
                          ptr |-> IF r.path = "zero" THEN NullPtr ELSE arg.ptr,
                          how |-> r.how, path |-> r.path, failed |-> r.failed,
                          chain |-> IF /\ last.chain \in {1, 3}
                                       /\ last.ptr = arg.ptr /\ last.n = arg.n
                                       /\ r.path = "pool"
                                    THEN 2 ELSE 0]
              /\ status' = StatusAfter(r.how)
    /\ UNCHANGED <<policy, elem, handed, th, init_lock, calls, Outside>>

\* The thread ends (local policy).  `pools` is a thread_local array of raw
\* pointers and `initialized` a thread_local bool: both are trivially
\* destructible, so nothing runs when the thread ends.
ThreadExit ==
    /\ status = "running"
    /\ policy = "local"
    /\ status' = "exited"
    /\ last' = [NoCall EXCEPT !.op = "exit"]
    /\ UNCHANGED <<policy, elem, initialized, pools, mapped, held, handed, th,
                   init_lock, calls, Outside>>

Next ==
    \/ \E n \in Counts : Allocate(n)
    \/ \E arg \in DeallocArgs : Deallocate(arg)
    \/ ThreadExit

Spec == Init /\ [][Next]_vars

(***************************************************************************)
(* What the properties below read off a state                              *)
(***************************************************************************)
\* the pointers the caller holds
HeldPtrs == {h.ptr : h \in held}
\* the index of the pool that serves allocate(n) for the element type
PoolIndex(n) == size_to_index(round_to_size_class(alloc_bytes(elem, n)))
\* the blocks of arena a the bump path has handed out
BumpBlocks(a) ==
    {a.base_addr + k * a.block_size :
        k \in {j \in 0..(arena_size \div min_size) : j * a.block_size < a.bump_offset}}
\* the indices of the blocks of arena a whose L2 bit is set
FreeIndices(a) ==
    {(x[1] - 1) * WordBits + x[2] :
        x \in {y \in (DOMAIN a.l2) \X (0..(WordBits - 1)) : y[2] \in a.l2[y[1]]}}
\* the arenas of pool p
ArenasOf(p) == {p.arenas[k] : k \in 1..max_arenas} \ {NoArena}
\* pool p has every slot populated and every block of every arena live
Exhausted(p) ==
    /\ p # NoPool
    /\ p.num_arenas = max_arenas
    /\ \A k \in 1..max_arenas :
          LET a == p.arenas[k]
          IN  /\ a # NoArena
              /\ a.bump_offset >= usable_capacity(a.block_size)
              /\ FreeIndices(a) = {}
              /\ BumpBlocks(a) \subseteq HeldPtrs
\* the step is a call of allocate that went to a pool
PooledAllocateStep == last'.op = "allocate" /\ last'.path = "pool"

C3_FailedReservationThrows ==
    (last.op = "allocate" /\ last.path = "pool" /\ last.failed # {})
        => last.how = "bad_alloc"

\* the blocks of the arenas of pool p whose L2 bit is set
FreedBlocksOf(p) ==
    UNION {{a.base_addr + i * a.block_size : i \in FreeIndices(a)} : a \in ArenasOf(p)}
\* the step is q = allocate(s), the third call of
\* p = allocate(s); deallocate(p, s); q = allocate(s), and it returned a block
ReuseStep == last.chain = 2 /\ last'.chain = 3

\* C4 as stated: in p = allocate(s); deallocate(p, s); q = allocate(s) the
\* block q is one that was handed out before and is free, taken from the freed
\* blocks of the arenas the pool already has.
C4_ReturnsFreedBlock ==
    [][ReuseStep => last'.ptr \in FreedBlocksOf(pools[PoolIndex(last'.n) + 1])]_vars
\* C4 amended: in that sequence, while the pool's current arena has bump room
\* q is the next block of its bump region, a block never handed out before;
\* q is a block handed out before only when it is a freed block of an arena
\* whose bump region is exhausted.
C4_BumpBeforeReuse ==
    [][ReuseStep =>
          LET p == pools[PoolIndex(last'.n) + 1]
              cur == p.arenas[p.current_arena + 1]
              q == last'.ptr
          IN  /\ cur.bump_offset < usable_capacity(cur.block_size)
                    => (q = cur.base_addr + cur.bump_offset /\ q \notin handed)
              /\ q \in handed
                    => /\ q \in FreedBlocksOf(p)
                       /\ \E a \in ArenasOf(p) :
                             /\ owns(a, q)
                             /\ a.bump_offset >= usable_capacity(a.block_size)]_vars
\* the sequence has run on a fresh pool and q is not p: two blocks were handed
\* out and the caller holds only q
C4_Witness ==
    /\ last.chain = 3
    /\ Cardinality(handed) = 2
    /\ HeldPtrs = {last.ptr}

\* C5: under the local policy an arena whose bitmap search returns nullptr
\* (the search ran, alloc_count moved, and no L2 bit was cleared) had no freed
\* block among its num_blocks blocks.
C5_NullOnlyWhenNoFreeBlock ==
    [][policy = "local" =>
          \A i \in 1..num_size_classes, k \in 1..max_arenas :
             (/\ pools[i] # NoPool
              /\ pools[i].arenas[k] # NoArena
              /\ pools'[i].arenas[k].alloc_count # pools[i].arenas[k].alloc_count
              /\ pools'[i].arenas[k].l2 = pools[i].arenas[k].l2)
                => {j \in FreeIndices(pools[i].arenas[k]) :
                       j < num_blocks(pools[i].arenas[k].block_size)} = {}]_vars

\* C8: once the thread has exited (local policy) no pool object, arena object
\* or arena region it mapped is still mapped.
C8_ThreadExitReleases ==
    status = "exited" => {m \in mapped : m.kind \in {"pool", "arena", "region"}} = {}

\* the mapping of a direct allocation of n elements at ptr
LargeMapping(ptr, n) == [kind |-> "large", addr |-> ptr, len |-> alloc_bytes(elem, n)]
\* C9: a call whose byte size exceeds max_size takes the OS path and leaves
\* `initialized` and the pools as they are; allocate adds one mapping of
\* exactly the requested bytes at the pointer it returns (or fails with
\* std::bad_alloc and maps nothing), and deallocate(ptr, n) removes exactly
\* that mapping.
C9_LargeBypassesPools ==
    [][(/\ last'.op \in {"allocate", "deallocate"}
        /\ last'.n # 0
        /\ alloc_bytes(elem, last'.n) > max_size)
          => /\ last'.path = "os"
             /\ pools' = pools
             /\ initialized' = initialized
             /\ last'.op = "allocate" =>
                   \/ /\ last'.how = "return" /\ last'.ptr # NullPtr
                      /\ LargeMapping(last'.ptr, last'.n) \notin mapped
                      /\ mapped' = mapped \cup {LargeMapping(last'.ptr, last'.n)}
                   \/ /\ last'.how = "bad_alloc" /\ last'.ptr = NullPtr
                      /\ mapped' = mapped
             /\ last'.op = "deallocate" =>
                   /\ last'.how = "return"
                   /\ LargeMapping(last'.ptr, last'.n) \in mapped
                   /\ mapped' = mapped \ {LargeMapping(last'.ptr, last'.n)}]_vars
\* a direct allocation has been released while the pools exist and the caller
\* holds a pooled block
C9_Witness ==
    /\ last.op = "deallocate" /\ last.path = "os"
    /\ initialized
    /\ HeldPtrs # {}
    /\ {m \in mapped : m.kind = "large"} = {}

\* C10: allocate(0) returns a null pointer, and it and deallocate with a null
\* pointer or a zero count leave `initialized`, the pools, the mappings and
\* what the caller holds as they are.
C10_ZeroCallsDoNothing ==
    [][(last'.op \in {"allocate", "deallocate"} /\ last'.path = "zero")
          => /\ last'.ptr = NullPtr /\ last'.how = "return"
             /\ UNCHANGED <<initialized, pools, mapped, held>>]_vars
\* allocate(0) was the first call of the thread: no pool exists
C10_Witness ==
    /\ last.op = "allocate" /\ last.path = "zero"
    /\ ~initialized /\ mapped = {}

\* the arenas of every pool
AllArenas ==
    UNION {ArenasOf(pools[i]) : i \in {j \in 1..num_size_classes : pools[j] # NoPool}}
\* C13: a pointer allocate returned from a pool lies in an arena of the
\* request's size class c at an offset that is a multiple of c; the arena's
\* base is page-aligned, so for a type of alignment A <= c, A at most the
\* page size, the pointer is a multiple of A.  This holds for every block a
\* caller holds, whether it came from the bump path or from the bitmap.
C13_BlocksAlignedToClass ==
    \A h \in held :
       LET c == round_to_size_class(alloc_bytes(elem, h.n))
       IN  ~is_large(c) =>
              /\ elem.align <= c /\ elem.align <= PageSize
              /\ \E a \in AllArenas :
                    /\ owns(a, h.ptr)
                    /\ a.block_size = c
                    /\ a.base_addr % PageSize = 0
                    /\ ((h.ptr - a.base_addr) % SizeMod) % c = 0
              /\ h.ptr % elem.align = 0
\* a block of a type whose alignment is the page size has just come from the
\* bitmap path (the arena that owns it has searched its bitmap, which it does
\* only once its bump region is used up), while the caller holds another block
C13_Witness ==
    /\ last.op = "allocate" /\ last.path = "pool" /\ last.ptr # NullPtr
    /\ elem.align = PageSize
    /\ \E a \in AllArenas : owns(a, last.ptr) /\ a.alloc_count >= 1
    /\ Cardinality(held) = 2

\* C17: under the local policy, after any sequence of calls, is_full() of an
\* arena is true exactly when the next allocate() on that arena returns a
\* null pointer.
C17_FullIffAllocateFails ==
    policy = "local" =>
       \A a \in AllArenas : is_full(a) <=> (arena_allocate(a).ptr = NullPtr)
\* the half of C17 that the code keeps: an arena that is_full() calls full
\* has no block to give
FullArenaGivesNothing ==
    policy = "local" =>
       \A a \in AllArenas : is_full(a) => arena_allocate(a).ptr = NullPtr

(***************************************************************************)
(* SpecShared: several threads in arena_pool<shared>::allocate and         *)
(* ::deallocate of one size class, one atomic access per step.  The pools  *)
(* exist already; the atomics are taken as sequentially consistent.        *)
(***************************************************************************)
\* a compare_exchange that stores whatever the value is (C1 depends on the
\* comparison)
cas_always(current, expected) == TRUE
\* compare_exchange: the exchange happens when the value is the expected one
cas_succeeds(current, expected) == current = expected

\* the element type of SpecShared and SpecInit: the largest one, whose
\* arenas have the fewest blocks
SharedElem == CHOOSE T \in ElemTypes : \A U \in ElemTypes : U.size <= T.size
\* the index in `pools` (from 1) of the pool the threads use, and the pool
SIx == PoolIndex(1) + 1
SP == pools[SIx]
\* the arena thread t is working on
Ar(t) == SP.arenas[th[t].k + 1]
At(t, pc) == status = "running" /\ th[t].pc = pc
SetTh(t, rec) == th' = [th EXCEPT ![t] = rec]
SetArena(t, a) == pools' = [pools EXCEPT ![SIx].arenas[th[t].k + 1] = a]
SharedFixed == <<policy, elem, initialized, handed, last, init_lock, Outside>>

InitShared ==
    /\ policy = "shared"
    /\ elem = SharedElem
    /\ initialized = TRUE
    /\ \E r \in {InitPools([i \in 1..num_size_classes |-> NoPool], {}, 0, ClassIndices)} :
          pools = r.pools /\ mapped = r.mapped
    /\ held = {}
    /\ handed = {}
    /\ last = NoCall
    /\ status = "running"
    /\ th = [t \in Threads |-> IdleThread]
    /\ init_lock = FALSE
    /\ calls = NoCalls
    /\ um = NoMap
    /\ present = NoEntries
    /\ fl = NoFreelist
    /\ flu = NoUse
    /\ guards = NoGuards
    /\ acts = NoActs

\* the locals of arena::allocate, dropped when it returns
ResetArenaLocals(rec) ==
    [rec EXCEPT !.offset = 0, !.li = 0, !.l1_word_idx = 0, !.l1_bit_offset = 0,
                !.l1_index = 0, !.j = 0, !.l2_word = {}, !.u = 0, !.has_free = FALSE]

\* A step of a thread is one access to the shared memory (or to the OS) and
\* the thread's own computation up to its next access.  pc names the access
\* the thread makes next.

RECURSIVE NextScan(_)
\* arena_pool::allocate, the loop over the other arenas from rec.i on, up to
\* its next access: the arena to try, or the growth of the pool, which ends
\* at once with nullptr when num has reached max_arenas
NextScan(rec) ==
    IF rec.i >= rec.num
    THEN IF AtArenaLimit(rec.num)
         THEN [rec EXCEPT !.pc = "return", !.ptr = NullPtr]
         ELSE [rec EXCEPT !.pc = "pa_grow"]
    ELSE IF rec.i = rec.current_idx THEN NextScan([rec EXCEPT !.i = @ + 1])
    ELSE [rec EXCEPT !.pc = "pa_arena", !.k = rec.i, !.cont = "scan"]

\* arena_pool::allocate, after arena->allocate() returned ptr: the three call
\* sites (the current arena, the scan, the arena just created)
ArenaReturned(rec0, ptr, path) ==
    LET rec == ResetArenaLocals(rec0)
    IN  IF ptr # NullPtr
        THEN IF rec.cont = "scan"
             THEN [rec EXCEPT !.pc = "pa_store_current", !.ptr = ptr, !.path = path]
             ELSE [rec EXCEPT !.pc = "return", !.ptr = ptr, !.path = path]
        ELSE IF rec.cont = "current" THEN NextScan([rec EXCEPT !.i = 0])
        ELSE IF rec.cont = "scan" THEN NextScan([rec EXCEPT !.i = @ + 1])
        ELSE [rec EXCEPT !.pc = "return", !.ptr = NullPtr]

\* try_bitmap_allocate, the end of a turn of the loop over the L1 words
NextL1(rec, bs) ==
    IF rec.li + 1 >= l1_words(bs)
    THEN ArenaReturned(rec, NullPtr, "none")
    ELSE [rec EXCEPT !.pc = "aa_l1", !.li = @ + 1, !.j = 0, !.l2_word = {}]

\* try_bitmap_allocate, the loop over the L2 words of the region at turn
\* rec.j, up to its load of the L2 word
NextL2(rec, bs) ==
    IF rec.j >= l2_per_l1 \/ rec.l1_index * l2_per_l1 + rec.j >= l2_words(bs)
    THEN NextL1(rec, bs)
    ELSE [rec EXCEPT !.pc = "aa_l2", !.l2_word = {}]

\* try_bitmap_allocate, the loop while (l2_word != 0) with rec.l2_word just
\* loaded, up to its CAS; the break on block_index >= num_blocks leaves this
\* loop only
NextL2Cas(rec, bs) ==
    IF rec.l2_word = {}
    THEN NextL2([rec EXCEPT !.j = @ + 1], bs)
    ELSE IF (rec.l1_index * l2_per_l1 + rec.j) * WordBits + Min(rec.l2_word)
               >= num_blocks(bs)
    THEN NextL2([rec EXCEPT !.j = @ + 1], bs)
    ELSE [rec EXCEPT !.pc = "aa_l2cas"]

\* arena::allocate with offset just loaded: the bump loop or the bitmap
AfterBumpLoad(rec, bs) ==
    IF rec.offset < usable_capacity(bs) THEN [rec EXCEPT !.pc = "aa_bump"]
    ELSE [rec EXCEPT !.pc = "aa_count"]

\* a thread calls allocate for the size class, or allocate calls itself
\* after the CAS on num_arenas failed: current_idx = current_arena.load()
BeginAllocate(t) ==
    /\ status = "running"
    /\ th[t].pc \in {"idle", "pa_restart"}
    /\ SetTh(t, [IdleThread EXCEPT !.pc = "pa_load_num",
                                   !.current_idx = SP.current_arena])
    /\ UNCHANGED <<pools, mapped, held, status, SharedFixed>>
LoadCurrent(t) == BeginAllocate(t) /\ UNCHANGED calls

\* num = num_arenas.load(), and the choice of the arena to try first
LoadNum(t) ==
    /\ At(t, "pa_load_num")
    /\ LET rec == [th[t] EXCEPT !.num = SP.num_arenas]
       IN  IF rec.current_idx < rec.num
           THEN SetTh(t, [rec EXCEPT !.pc = "pa_arena", !.k = rec.current_idx,
                                     !.cont = "current"])
           ELSE SetTh(t, NextScan([rec EXCEPT !.i = 0]))
    /\ UNCHANGED <<pools, mapped, held, status, SharedFixed, calls>>

\* arenas[k].load()->allocate(), up to offset = bump_offset.load(): the call
\* through a null pointer reads the never-mapped page 0 and ends the process
EnterArena(t) ==
    /\ At(t, "pa_arena")
    /\ IF Ar(t) = NoArena
       THEN status' = "segv" /\ UNCHANGED th
       ELSE /\ SetTh(t, AfterBumpLoad([th[t] EXCEPT !.offset = Ar(t).bump_offset],
                                      Ar(t).block_size))
            /\ UNCHANGED status
    /\ UNCHANGED <<pools, mapped, held, SharedFixed, calls>>

\* arena::allocate: the CAS on bump_offset; a CAS that fails reloads offset
BumpCas(t) ==
    /\ At(t, "aa_bump")
    /\ LET a == Ar(t)
           offset == th[t].offset
       IN  IF cas_succeeds(a.bump_offset, offset)
           THEN /\ SetArena(t, [a EXCEPT !.bump_offset = offset + a.block_size])
                /\ SetTh(t, ArenaReturned(th[t], a.base_addr + offset, "bump"))
           ELSE /\ SetTh(t, AfterBumpLoad([th[t] EXCEPT !.offset = a.bump_offset],
                                          a.block_size))
                /\ UNCHANGED pools
    /\ UNCHANGED <<mapped, held, status, SharedFixed, calls>>

\* try_bitmap_allocate: counter = alloc_count.fetch_add(1) and the start of
\* the search
FetchAddCount(t) ==
    /\ At(t, "aa_count")
    /\ LET a == Ar(t)
           start_l1_bit == a.alloc_count % l1_bits(a.block_size)
       IN  /\ SetArena(t, [a EXCEPT !.alloc_count = (@ + 1) % SizeMod])
           /\ SetTh(t, [th[t] EXCEPT !.pc = "aa_l1", !.li = 0,
                                      !.l1_word_idx = start_l1_bit \div WordBits,
                                      !.l1_bit_offset = start_l1_bit % WordBits])
    /\ UNCHANGED <<mapped, held, status, SharedFixed, calls>>
\* the same, within the bound of the model on alloc_count
CountStep(t) == Ar(t).alloc_count < MaxAllocCount /\ FetchAddCount(t)

\* try_bitmap_allocate: the load of an L1 word and the choice of its bit
L1Load(t) ==
    /\ At(t, "aa_l1")
    /\ LET a == Ar(t)
           bs == a.block_size
           idx == (th[t].l1_word_idx + th[t].li) % l1_words(bs)
           word == a.l1[idx + 1]
           l1_word == IF th[t].li = 0 /\ th[t].l1_bit_offset # 0
                      THEN {b \in word : b >= th[t].l1_bit_offset}
                      ELSE word
       IN  IF l1_word = {}
           THEN SetTh(t, NextL1(th[t], bs))
           ELSE SetTh(t, NextL2([th[t] EXCEPT !.j = 0,
                                    !.l1_index = idx * WordBits + Min(l1_word)], bs))
    /\ UNCHANGED <<pools, mapped, held, status, SharedFixed, calls>>

\* try_bitmap_allocate: l2_word = l2_bitmap[l2_idx].load()
L2Load(t) ==
    /\ At(t, "aa_l2")
    /\ LET a == Ar(t)
           l2_idx == th[t].l1_index * l2_per_l1 + th[t].j
       IN  SetTh(t, NextL2Cas([th[t] EXCEPT !.l2_word = a.l2[l2_idx + 1]], a.block_size))
    /\ UNCHANGED <<pools, mapped, held, status, SharedFixed, calls>>

\* try_bitmap_allocate: the CAS on the L2 word; a CAS that fails reloads
\* l2_word
L2Cas(t) ==
    /\ At(t, "aa_l2cas")
    /\ LET a == Ar(t)
           bs == a.block_size
           l2_idx == th[t].l1_index * l2_per_l1 + th[t].j
           l2_word == th[t].l2_word
           bit == Min(l2_word)
           block_index == l2_idx * WordBits + bit
           new_word == l2_word \ {bit}
       IN  IF cas_succeeds(a.l2[l2_idx + 1], l2_word)
           THEN /\ SetArena(t, [a EXCEPT !.l2[l2_idx + 1] = new_word])
                /\ IF new_word = {}
                   THEN SetTh(t, [th[t] EXCEPT !.pc = "aa_update_l1", !.u = 0,
                                               !.ptr = a.base_addr + block_index * bs])
                   ELSE SetTh(t, ArenaReturned(th[t], a.base_addr + block_index * bs,
                                               "bitmap"))
           ELSE /\ SetTh(t, NextL2Cas([th[t] EXCEPT !.l2_word = a.l2[l2_idx + 1]], bs))
                /\ UNCHANGED pools
    /\ UNCHANGED <<mapped, held, status, SharedFixed, calls>>

\* update_l1_for_region: one load of the loop that looks for a non-zero L2
\* word in the region
UpdateL1Scan(t) ==
    /\ At(t, "aa_update_l1")
    /\ LET a == Ar(t)
           l2_region_start == th[t].l1_index * l2_per_l1
           u == th[t].u
       IN  IF a.l2[l2_region_start + u + 1] # {}
           THEN SetTh(t, [th[t] EXCEPT !.pc = "aa_update_l1_set", !.has_free = TRUE])
           ELSE IF u + 1 < l2_per_l1 /\ l2_region_start + u + 1 < l2_words(a.block_size)
           THEN SetTh(t, [th[t] EXCEPT !.u = @ + 1])
           ELSE SetTh(t, [th[t] EXCEPT !.pc = "aa_update_l1_set", !.has_free = FALSE])
    /\ UNCHANGED <<pools, mapped, held, status, SharedFixed, calls>>

\* update_l1_for_region: the fetch_or or fetch_and on the L1 word, and the
\* return of the block
UpdateL1Set(t) ==
    /\ At(t, "aa_update_l1_set")
    /\ LET a == Ar(t)
           l1_word == th[t].l1_index \div WordBits
           l1_bit == th[t].l1_index % WordBits
       IN  /\ SetArena(t, IF th[t].has_free
                          THEN [a EXCEPT !.l1[l1_word + 1] = @ \cup {l1_bit}]
                          ELSE [a EXCEPT !.l1[l1_word + 1] = @ \ {l1_bit}])
           /\ SetTh(t, ArenaReturned(th[t], th[t].ptr, "bitmap"))
    /\ UNCHANGED <<mapped, held, status, SharedFixed, calls>>

\* current_arena.store(i) after the scan found a block
StoreCurrentAfterScan(t) ==
    /\ At(t, "pa_store_current")
    /\ pools' = [pools EXCEPT ![SIx].current_arena = th[t].i]
    /\ SetTh(t, [th[t] EXCEPT !.pc = "return"])
    /\ UNCHANGED <<mapped, held, status, SharedFixed, calls>>

\* growth: the CAS on num_arenas; a CAS that fails restarts allocate
Grow(t) ==
    /\ At(t, "pa_grow")
    /\ IF cas_succeeds(SP.num_arenas, th[t].num)
       THEN /\ pools' = [pools EXCEPT ![SIx].num_arenas = th[t].num + 1]
            /\ SetTh(t, [th[t] EXCEPT !.pc = "pa_construct"])
       ELSE /\ SetTh(t, [IdleThread EXCEPT !.pc = "pa_restart"])
            /\ UNCHANGED pools
    /\ UNCHANGED <<mapped, held, status, SharedFixed, calls>>

\* growth after the CAS: the mmap of the arena object, which the OS may
\* refuse, then num_arenas.fetch_sub(1) and return nullptr
GrowRollBack(t) ==
    /\ At(t, "pa_construct")
    /\ pools' = [pools EXCEPT ![SIx] = RollBack(@)]
    /\ SetTh(t, [th[t] EXCEPT !.pc = "return", !.ptr = NullPtr])
    /\ UNCHANGED <<mapped, held, status, SharedFixed, calls>>

\* growth after the CAS: the arena object is mapped, and the constructor
\* fails to map the region and throws, which ends the process since allocate
\* is noexcept
GrowTerminate(t) ==
    /\ At(t, "pa_construct")
    /\ CanMap(mapped, "arena", sizeof_arena_type)
    /\ mapped' = Mmap(mapped, "arena", sizeof_arena_type)
    /\ status' = "terminated"
    /\ UNCHANGED <<pools, held, th, SharedFixed, calls>>

\* growth after the CAS: arenas[expected].store(new (arena_mem)
\* arena_type(block_size))
GrowStore(t) ==
    /\ At(t, "pa_construct")
    /\ CanMap(mapped, "arena", sizeof_arena_type)
    /\ \E m1 \in {Mmap(mapped, "arena", sizeof_arena_type)} :
          /\ CanMap(m1, "region", arena_size)
          /\ mapped' = Mmap(m1, "region", arena_size)
          /\ pools' = [pools EXCEPT ![SIx].arenas[th[t].num + 1] =
                          arena_new(MmapAddr(mapped, "arena", sizeof_arena_type),
                                    SP.block_size,
                                    MmapAddr(m1, "region", arena_size))]
    /\ SetTh(t, [th[t] EXCEPT !.pc = "pa_store_grown"])
    /\ UNCHANGED <<held, status, SharedFixed, calls>>

\* current_arena.store(expected), up to arenas[expected].load()->allocate()
StoreCurrentAfterGrow(t) ==
    /\ At(t, "pa_store_grown")
    /\ pools' = [pools EXCEPT ![SIx].current_arena = th[t].num]
    /\ SetTh(t, [th[t] EXCEPT !.pc = "pa_arena", !.k = th[t].num, !.cont = "final"])
    /\ UNCHANGED <<mapped, held, status, SharedFixed, calls>>

\* allocate returns: the caller holds the block (a null pointer becomes
\* std::bad_alloc in the front-end)
Return(t) ==
    /\ At(t, "return")
    /\ held' = IF th[t].ptr # NullPtr
               THEN held \cup {[ptr |-> th[t].ptr, n |-> 1]} ELSE held
    /\ SetTh(t, IdleThread)
    /\ UNCHANGED <<pools, mapped, status, SharedFixed, calls>>

\* the index of the arena arena_pool::deallocate finds for ptr among the
\* first num slots, or num when no arena there owns it
OwnerIndex(p, ptr, num) ==
    Min({i \in 0..(num - 1) : p.arenas[i + 1] # NoArena /\ owns(p.arenas[i + 1], ptr)}
           \cup {num})

\* a thread calls deallocate with a block some caller holds: num =
\* num_arenas.load() and the loop that looks for the owner.  (The slot of the
\* arena a block came from was stored before the block was handed out and
\* never changes, so the loads of the loop find the same owner whenever they
\* run.)
BeginDeallocate(t) ==
    /\ At(t, "idle")
    /\ \E h \in held :
          /\ held' = held \ {h}
          /\ LET num == SP.num_arenas
                 i == OwnerIndex(SP, h.ptr, num)
             IN  IF i >= num THEN SetTh(t, IdleThread)
                 ELSE SetTh(t, [IdleThread EXCEPT !.pc = "mf_l2", !.ptr = h.ptr,
                                                  !.num = num, !.k = i])
    /\ UNCHANGED <<pools, mapped, status, SharedFixed>>
StartDeallocate(t) == BeginDeallocate(t) /\ UNCHANGED calls

\* mark_free: l2_bitmap[l2_idx].fetch_or(bit)
MarkFreeL2(t) ==
    /\ At(t, "mf_l2")
    /\ LET a == Ar(t)
           block_index == pointer_to_block_index(a, th[t].ptr)
       IN  SetArena(t, [a EXCEPT !.l2[(block_index \div WordBits) + 1] =
                                     @ \cup {block_index % WordBits}])
    /\ SetTh(t, [th[t] EXCEPT !.pc = "mf_l1"])
    /\ UNCHANGED <<mapped, held, status, SharedFixed, calls>>

\* mark_free: l1_bitmap[l1_word].fetch_or(l1_offset), and the return
MarkFreeL1(t) ==
    /\ At(t, "mf_l1")
    /\ LET a == Ar(t)
           l1_bit == (pointer_to_block_index(a, th[t].ptr) \div WordBits) \div l2_per_l1
       IN  SetArena(t, [a EXCEPT !.l1[(l1_bit \div WordBits) + 1] =
                                     @ \cup {l1_bit % WordBits}])
    /\ SetTh(t, IdleThread)
    /\ UNCHANGED <<mapped, held, status, SharedFixed, calls>>

NextShared ==
    \E t \in Threads :
       \/ LoadCurrent(t) \/ LoadNum(t) \/ EnterArena(t) \/ BumpCas(t)
       \/ CountStep(t) \/ L1Load(t) \/ L2Load(t) \/ L2Cas(t)
       \/ UpdateL1Scan(t) \/ UpdateL1Set(t) \/ StoreCurrentAfterScan(t)
       \/ Grow(t) \/ GrowRollBack(t) \/ GrowTerminate(t) \/ GrowStore(t)
       \/ StoreCurrentAfterGrow(t) \/ Return(t)
       \/ StartDeallocate(t) \/ MarkFreeL2(t) \/ MarkFreeL1(t)

SpecShared == InitShared /\ [][NextShared]_vars

(***************************************************************************)
(* Properties of SpecShared                                                *)
(***************************************************************************)
\* thread t is about to return a block from allocate
Returning(t) == th[t].pc = "return" /\ th[t].ptr # NullPtr

C7_SlotsBelowCountConstructed ==
    \A i \in 0..(SP.num_arenas - 1) : SP.arenas[i + 1] # NoArena
\* the part of C7 that needs no slot to be populated: no arena sits at or
\* above num_arenas, and every block a caller holds is owned by an arena
\* below num_arenas
NoOrphanedArena ==
    /\ \A k \in 1..max_arenas : SP.arenas[k] # NoArena => k <= SP.num_arenas
    /\ \A h \in held : OwnerIndex(SP, h.ptr, SP.num_arenas) < SP.num_arenas
\* a populated slot is never stored again
NoArenaOverwritten ==
    [][\A k \in 1..max_arenas :
          SP.arenas[k] # NoArena =>
             pools'[SIx].arenas[k].base_addr = SP.arenas[k].base_addr]_vars

\* the step is the rollback of a failed creation by some thread: it leaves
\* the growth with a null pointer
RollBackStep ==
    \E t \in Threads :
       /\ th[t].pc = "pa_construct"
       /\ th'[t].pc = "return" /\ th'[t].ptr = NullPtr
\* C15: in every pool num_arenas is at most max_arenas; a step lowers
\* num_arenas only by one and only as the rollback of a failed creation; and
\* a slot that holds an arena holds that arena (the same object with the same
\* region) after every step.
C15_ArenasOnlyAppended ==
    [][\A i \in 1..num_size_classes :
          pools[i] # NoPool =>
             /\ pools[i].num_arenas <= max_arenas
             /\ pools'[i] # NoPool
             /\ pools'[i].num_arenas <= max_arenas
             /\ \/ pools'[i].num_arenas >= pools[i].num_arenas
                \/ /\ pools'[i].num_arenas = pools[i].num_arenas - 1
                   /\ RollBackStep
             /\ \A k \in 1..max_arenas :
                   pools[i].arenas[k] # NoArena =>
                      /\ pools'[i].arenas[k].self = pools[i].arenas[k].self
                      /\ pools'[i].arenas[k].base_addr = pools[i].arenas[k].base_addr]_vars
\* a thread has rolled back a failed creation (it is about to return a null
\* pointer from a growth it began below the limit) in a pool that has an
\* arena, while the other thread is in a call and a caller holds a block
C15_Witness ==
    \E t \in Threads, u \in Threads :
       /\ th[t].pc = "return" /\ th[t].ptr = NullPtr /\ th[t].num < max_arenas
       /\ u # t /\ th[u].pc # "idle"
       /\ SP.arenas[1] # NoArena
       /\ held # {}

(***************************************************************************)
(* SpecSharedFair: the threads of SpecShared, each making at most MaxCalls *)
(* calls, under a scheduler that lets every thread that is inside a call   *)
(* run again                                                               *)
(***************************************************************************)
\* thread t makes its next call
CountCall(t) ==
    /\ th[t].pc = "idle"
    /\ calls[t] < MaxCalls
    /\ calls' = [calls EXCEPT ![t] = @ + 1]
CallAllocate(t) == CountCall(t) /\ BeginAllocate(t)
CallDeallocate(t) == CountCall(t) /\ BeginDeallocate(t)
\* allocate calls itself after the CAS on num_arenas failed
Restart(t) == th[t].pc = "pa_restart" /\ LoadCurrent(t)
\* the steps of thread t inside a call
InCall(t) ==
    \/ Restart(t) \/ LoadNum(t) \/ EnterArena(t) \/ BumpCas(t)
    \/ FetchAddCount(t) \/ L1Load(t) \/ L2Load(t) \/ L2Cas(t)
    \/ UpdateL1Scan(t) \/ UpdateL1Set(t) \/ StoreCurrentAfterScan(t)
    \/ Grow(t) \/ GrowRollBack(t) \/ GrowTerminate(t) \/ GrowStore(t)
    \/ StoreCurrentAfterGrow(t) \/ Return(t)
    \/ MarkFreeL2(t) \/ MarkFreeL1(t)

NextSharedFair ==
    \E t \in Threads : CallAllocate(t) \/ CallDeallocate(t) \/ InCall(t)

SpecSharedFair ==
    /\ InitShared
    /\ [][NextSharedFair]_vars
    /\ \A t \in Threads : WF_vars(InCall(t))

\* C18: under the shared policy every call of allocate and deallocate that a
\* thread has begun returns.
C18_EveryCallReturns ==
    \A t \in Threads : (th[t].pc # "idle") ~> (th[t].pc = "idle")
\* the part of C18 that the loops keep: a call returns unless the process has
\* died
CallReturnsOrProcessDies ==
    \A t \in Threads : (th[t].pc # "idle") ~> (th[t].pc = "idle" \/ status # "running")

(***************************************************************************)
(* SpecInit: several threads in get_pools of the shared policy, one atomic *)
(* access per step                                                         *)
(***************************************************************************)
InitFixed == <<policy, elem, held, handed, last, status, calls, Outside>>

InitInit ==
    /\ policy = "shared"
    /\ elem = SharedElem
    /\ initialized = FALSE
    /\ pools = [i \in 1..num_size_classes |-> NoPool]
    /\ mapped = {}
    /\ held = {}
    /\ handed = {}
    /\ last = NoCall
    /\ status = "running"
    /\ th = [t \in Threads |-> IdleThread]
    /\ init_lock = FALSE
    /\ calls = NoCalls
    /\ um = NoMap
    /\ present = NoEntries
    /\ fl = NoFreelist
    /\ flu = NoUse
    /\ guards = NoGuards
    /\ acts = NoActs

\* a thread calls get_pools (from allocate or deallocate, for the first time
\* or again): if (initialized.load()) return pools
FastCheck(t) ==
    /\ th[t].pc \in {"idle", "got"}
    /\ SetTh(t, [th[t] EXCEPT !.pc = IF initialized THEN "got" ELSE "gp_spin"])
    /\ UNCHANGED <<initialized, pools, mapped, init_lock, InitFixed>>

\* one turn of while (init_lock.test_and_set()) {}
Spin(t) ==
    /\ th[t].pc = "gp_spin"
    /\ init_lock' = TRUE
    /\ SetTh(t, [th[t] EXCEPT !.pc = IF init_lock THEN "gp_spin" ELSE "gp_check"])
    /\ UNCHANGED <<initialized, pools, mapped, InitFixed>>

\* if (!initialized.load()) under the lock
SlowCheck(t) ==
    /\ th[t].pc = "gp_check"
    /\ SetTh(t, IF initialized THEN [th[t] EXCEPT !.pc = "gp_unlock"]
                ELSE [th[t] EXCEPT !.pc = "gp_construct", !.i = 0,
                                   !.path = "constructor"])
    /\ UNCHANGED <<initialized, pools, mapped, init_lock, InitFixed>>

\* one turn of the construction loop: the mmap of the pool object, which the
\* OS may refuse, and pools[i] = new (mem) pool_type(size_class)
ConstructPool(t) ==
    /\ th[t].pc = "gp_construct"
    /\ th[t].i < num_size_classes
    /\ \E ok \in BOOLEAN :
          IF ok /\ CanMap(mapped, "pool", sizeof_pool_type)
          THEN /\ pools' = [pools EXCEPT ![th[t].i + 1] = pool_new(min_size * (2 ^ th[t].i))]
               /\ mapped' = Mmap(mapped, "pool", sizeof_pool_type)
          ELSE UNCHANGED <<pools, mapped>>
    /\ SetTh(t, [th[t] EXCEPT !.i = @ + 1])
    /\ UNCHANGED <<initialized, init_lock, InitFixed>>

\* initialized.store(true)
SetInitialized(t) ==
    /\ th[t].pc = "gp_construct"
    /\ th[t].i >= num_size_classes
    /\ initialized' = TRUE
    /\ SetTh(t, [th[t] EXCEPT !.pc = "gp_unlock", !.i = 0])
    /\ UNCHANGED <<pools, mapped, init_lock, InitFixed>>

\* a return that leaves the flag set (C19 depends on the clear)
UnlockKeep(t) ==
    /\ th[t].pc = "gp_unlock"
    /\ init_lock' = init_lock
    /\ SetTh(t, [th[t] EXCEPT !.pc = "got"])
    /\ UNCHANGED <<initialized, pools, mapped, InitFixed>>
\* init_lock.clear(); return pools
Unlock(t) ==
    /\ th[t].pc = "gp_unlock"
    /\ init_lock' = FALSE
    /\ SetTh(t, [th[t] EXCEPT !.pc = "got"])
    /\ UNCHANGED <<initialized, pools, mapped, InitFixed>>

NextInit ==
    \E t \in Threads :
       \/ FastCheck(t) \/ Spin(t) \/ SlowCheck(t) \/ ConstructPool(t)
       \/ SetInitialized(t) \/ Unlock(t)

SpecInit == InitInit /\ [][NextInit]_vars

\* the steps of thread t inside get_pools after the fast check
InsideGetPools(t) ==
    \/ Spin(t) \/ SlowCheck(t) \/ ConstructPool(t) \/ SetInitialized(t) \/ Unlock(t)
\* SpecInit under a scheduler that lets every thread that is inside get_pools
\* run again
SpecInitFair ==
    /\ InitInit
    /\ [][NextInit]_vars
    /\ \A t \in Threads : WF_vars(InsideGetPools(t))

\* C19: a thread that is in the spin of get_pools gets the flag and later
\* returns from get_pools, having cleared the flag; and a step of a thread
\* that calls get_pools when `initialized` is set takes it straight to the
\* return and leaves the flag as it is.
C19_SpinEndsAndFastPathSkipsFlag ==
    /\ \A t \in Threads : (th[t].pc = "gp_spin") ~> (th[t].pc = "gp_check")
    /\ \A t \in Threads : (th[t].pc = "gp_check") ~> (th[t].pc = "got")
    /\ [][\A t \in Threads :
             (th[t].pc \in {"idle", "got"} /\ initialized /\ th'[t] # th[t])
                => (th'[t].pc = "got" /\ init_lock' = init_lock)]_vars
    /\ [][\A t \in Threads :
             (th[t].pc = "gp_unlock" /\ th'[t].pc = "got") => ~init_lock']_vars
\* a thread that spun while another constructed the pools has the flag and is
\* about to clear it, and the constructor has returned
C19_Witness ==
    \E t \in Threads, u \in Threads :
       /\ th[t].path = "constructor" /\ th[t].pc = "got"
       /\ th[u].path # "constructor" /\ th[u].pc = "gp_unlock"
       /\ init_lock /\ initialized

\* C6: a thread that has the pool array back from get_pools sees every pool
\* constructed.
C6_AllPoolsConstructed ==
    \A t \in Threads :
       th[t].pc = "got" => \A i \in 1..num_size_classes : pools[i] # NoPool
\* the part of C6 about the lock: at most one thread ever runs the
\* construction loop
OneConstructor ==
    Cardinality({t \in Threads : th[t].path = "constructor"}) <= 1

(***************************************************************************)
(* SpecSizes: the size-class table.  allocator<char> is asked for every    *)
(* byte count s: round_to_size_class(s), size_to_index of the class, then  *)
(* p = allocate(s) and deallocate(p, s), with an OS that refuses no mmap   *)
(* it has room for (tests/allocator.cc, NonPowerOfTwoSizes).               *)
(***************************************************************************)
\* char
CharType == [size |-> 1, align |-> 1]
\* the byte counts asked for: every value of size_t
SizeInputs == 0..(SizeMod - 1)

InitSizes ==
    /\ policy = "local"
    /\ elem = CharType
    /\ initialized = FALSE
    /\ pools = [i \in 1..num_size_classes |-> NoPool]
    /\ mapped = {}
    /\ held = {}
    /\ handed = {}
    /\ \E s \in SizeInputs :
          last = [op |-> "none", n |-> s, size_class |-> 0, index |-> 0, ptr |-> NullPtr,
                  how |-> "return", path |-> "zero"]
    /\ status = "running"
    /\ th = [t \in Threads |-> IdleThread]
    /\ init_lock = FALSE
    /\ calls = NoCalls
    /\ um = NoMap
    /\ present = NoEntries
    /\ fl = NoFreelist
    /\ flu = NoUse
    /\ guards = NoGuards
    /\ acts = NoActs

SizesFixed == <<policy, elem, th, init_lock, calls, Outside>>

\* size_class = round_to_size_class(bytes)
RoundToSizeClass ==
    /\ last.op = "none"
    /\ last' = [last EXCEPT !.op = "round_to_size_class",
                            !.size_class = round_to_size_class(last.n)]
    /\ UNCHANGED <<initialized, pools, mapped, held, handed, status, SizesFixed>>

\* index = size_to_index(size_class), for a class that is served by a pool
SizeToIndex ==
    /\ last.op = "round_to_size_class"
    /\ ~is_large(last.size_class)
    /\ last' = [last EXCEPT !.op = "size_to_index",
                            !.index = size_to_index(last.size_class)]
    /\ UNCHANGED <<initialized, pools, mapped, held, handed, status, SizesFixed>>

\* p = alloc.allocate(s)
AllocateBytes ==
    /\ \/ last.op = "size_to_index"
       \/ last.op = "round_to_size_class" /\ is_large(last.size_class)
    /\ \E r \in {allocate(policy, elem, initialized, pools, mapped, last.n,
                           ClassIndices, TRUE, TRUE, TRUE)} :
          /\ initialized' = r.initialized
          /\ pools' = r.pools
          /\ mapped' = r.mapped
          /\ held' = IF r.ptr # NullPtr THEN {[ptr |-> r.ptr, n |-> last.n]} ELSE {}
          /\ handed' = IF r.ptr # NullPtr /\ r.path = "pool" THEN {r.ptr} ELSE {}
          /\ last' = [last EXCEPT !.op = "allocate", !.ptr = r.ptr, !.how = r.how,
                                  !.path = r.path]
    /\ UNCHANGED <<status, SizesFixed>>

\* alloc.deallocate(p, s)
DeallocateBytes ==
    /\ last.op = "allocate"
    /\ last.ptr # NullPtr
    /\ \E r \in {deallocate(elem, initialized, pools, mapped, last.ptr, last.n,
                             ClassIndices)} :
          /\ initialized' = r.initialized
          /\ pools' = r.pools
          /\ mapped' = r.mapped
          /\ held' = {}
          /\ last' = [last EXCEPT !.op = "deallocate", !.how = r.how, !.path = r.path]
    /\ UNCHANGED <<handed, status, SizesFixed>>

NextSizes == RoundToSizeClass \/ SizeToIndex \/ AllocateBytes \/ DeallocateBytes

SpecSizes == InitSizes /\ [][NextSizes]_vars

\* x is a power of two
IsPowerOfTwo(x) == \E k \in 0..SizeBits : x = 2 ^ k

\* C11: round_to_size_class(size) is min_size (8) for size <= min_size, 0 for
\* size > max_size, and otherwise the smallest power of two >= size: a power
\* of two that is >= size and less than twice size.  A power of two maps to
\* itself, and max_size maps to max_size, not to 0.
C11_RoundsToSmallestPowerOfTwo ==
    last.op # "none" =>
       LET size == last.n
           c == last.size_class
       IN  /\ size <= min_size => c = min_size
           /\ size > max_size => c = 0
           /\ (min_size < size /\ size <= max_size) =>
                  /\ IsPowerOfTwo(c) /\ c >= size /\ c < 2 * size
                  /\ c <= max_size
           /\ (IsPowerOfTwo(size) /\ min_size <= size /\ size <= max_size) => c = size
           /\ size = max_size => c = max_size
\* max_size itself has been rounded, to max_size
C11_Witness ==
    /\ last.op = "round_to_size_class"
    /\ last.n = max_size
    /\ last.size_class = max_size

\* C12: for every byte count s in 1..max_size the index of the class of s
\* lies in [0, num_size_classes) and is log2(class) - log2(min_size); the
\* pool get_pools stored at that index has the class as its block size, which
\* is at least s; allocate(s) takes its block from an arena of that pool and
\* of no other, and deallocate(p, s) marks the block free in that same pool.
C12_IndexReachesPoolOfClass ==
    (last.op \in {"size_to_index", "allocate", "deallocate"}
        /\ 1 <= last.n /\ last.n <= max_size) =>
       LET s == last.n
           c == last.size_class
           i == last.index
       IN  /\ i \in 0..(num_size_classes - 1)
           /\ c = min_size * (2 ^ i)
           /\ last.op \in {"allocate", "deallocate"} =>
                 /\ initialized
                 /\ \A k \in ClassIndices : pools[k + 1].block_size = min_size * (2 ^ k)
                 /\ pools[i + 1].block_size >= s
                 /\ \E a \in ArenasOf(pools[i + 1]) :
                       /\ owns(a, last.ptr)
                       /\ a.block_size >= s
                       /\ last.ptr + s <= a.base_addr + arena_size
                 /\ \A k \in ClassIndices \ {i} : ArenasOf(pools[k + 1]) = {}
           /\ last.op = "allocate" => last.ptr \notin FreedBlocksOf(pools[i + 1])
           /\ last.op = "deallocate" => last.ptr \in FreedBlocksOf(pools[i + 1])
\* a byte count that is no power of two and belongs to the largest class has
\* been allocated and given back
C12_Witness ==
    /\ last.op = "deallocate"
    /\ ~IsPowerOfTwo(last.n)
    /\ last.index = num_size_classes - 1
    /\ last.ptr \in FreedBlocksOf(pools[num_size_classes])

(***************************************************************************)
(* SpecPool: the life of one arena_pool<P> object used by one thread: it   *)
(* is constructed, serves allocate and deallocate, and is destroyed.       *)
(***************************************************************************)
InitPool ==
    /\ policy \in {"local", "shared"}
    /\ elem = SharedElem
    /\ initialized = FALSE
    /\ \E c \in ClassIndices :
          pools = [i \in 1..num_size_classes |->
                      IF i = c + 1 THEN pool_new(min_size * (2 ^ c)) ELSE NoPool]
    /\ mapped = {}
    /\ held = {}
    /\ handed = {}
    /\ last = [op |-> "construct", ptr |-> NullPtr, how |-> "return", failed |-> {},
               unmaps |-> <<>>]
    /\ status = "running"
    /\ th = [t \in Threads |-> IdleThread]
    /\ init_lock = FALSE
    /\ calls = NoCalls
    /\ um = NoMap
    /\ present = NoEntries
    /\ fl = NoFreelist
    /\ flu = NoUse
    /\ guards = NoGuards
    /\ acts = NoActs

\* the index in `pools` (from 1) of the pool object, and the pool
PIx == CHOOSE i \in 1..num_size_classes : pools[i] # NoPool
ThePool == pools[PIx]
PoolFixed == <<policy, elem, initialized, th, init_lock, calls, Outside>>

\* ptr = pool.allocate(); the OS may refuse the mmap of the arena object or
\* of the region
PoolAllocate ==
    /\ status = "running"
    /\ \A k \in 1..max_arenas : ThePool.arenas[k].alloc_count < MaxAllocCount
    /\ \E fail \in {"none", "arena", "region"} :
       \E r \in {pool_allocate(policy, ThePool, mapped, fail # "arena", fail # "region")} :
          /\ pools' = [pools EXCEPT ![PIx] = r.pool]
          /\ mapped' = r.mapped
          /\ held' = IF r.ptr # NullPtr THEN held \cup {[ptr |-> r.ptr, n |-> 1]} ELSE held
          /\ handed' = IF r.ptr # NullPtr THEN handed \cup {r.ptr} ELSE handed
          /\ last' = [op |-> "allocate", ptr |-> r.ptr, how |-> r.how,
                      failed |-> r.failed, unmaps |-> <<>>]
          /\ status' = StatusAfter(r.how)
    /\ UNCHANGED PoolFixed

\* pool.deallocate(ptr) of a block the caller holds
PoolDeallocate(h) ==
    /\ status = "running"
    /\ pools' = [pools EXCEPT ![PIx] = pool_deallocate(@, h.ptr)]
    /\ held' = held \ {h}
    /\ last' = [op |-> "deallocate", ptr |-> h.ptr, how |-> "return", failed |-> {},
                unmaps |-> <<>>]
    /\ UNCHANGED <<mapped, handed, status, PoolFixed>>

\* the pool object is destroyed; `pools` keeps what the object held when the
\* destructor began
PoolDestroy ==
    /\ status = "running"
    /\ \E d \in {pool_destroy(ThePool, mapped)} :
          /\ mapped' = d.mapped
          /\ last' = [op |-> "destroy", ptr |-> NullPtr, how |-> "return", failed |-> {},
                      unmaps |-> d.unmaps]
    /\ status' = "destroyed"
    /\ UNCHANGED <<pools, held, handed, PoolFixed>>

NextPool ==
    \/ PoolAllocate
    \/ \E h \in held : PoolDeallocate(h)
    \/ PoolDestroy

SpecPool == InitPool /\ [][NextPool]_vars

\* the mappings of arena regions
Regions(mp) == {m \in mp : m.kind = "region"}
\* the slots of pool p that hold an arena
Populated(p) == {k \in 1..max_arenas : p.arenas[k] # NoArena}
\* every arena of the pool has its own region mapped and no other region is
\* mapped
OneRegionPerArena ==
    /\ Regions(mapped) =
          {[kind |-> "region", addr |-> ThePool.arenas[k].base_addr, len |-> arena_size] :
              k \in Populated(ThePool)}
    /\ Cardinality(Regions(mapped)) = Cardinality(Populated(ThePool))
\* the munmap calls of the destructor that released a region
RegionUnmaps == SelectSeq(last.unmaps, LAMBDA u : u.len = arena_size)

\* C14: while the pool exists every arena has exactly one region mapped and
\* no step releases a region, however many blocks are freed; the destruction
\* of the pool leaves no region mapped, and its munmap calls release the
\* region of each arena once: each call hits a region that is mapped, and no
\* two calls have the same address.
C14_RegionsLiveAndDieWithPool ==
    [][/\ status' # "destroyed" =>
             /\ OneRegionPerArena'
             /\ Regions(mapped) \subseteq Regions(mapped')
       /\ status' = "destroyed" =>
             /\ Regions(mapped') = {}
             /\ LET released == SelectSeq(last'.unmaps, LAMBDA u : u.len = arena_size)
                IN  /\ \A x \in 1..Len(released) : released[x].hit
                    /\ \A x \in 1..Len(released), y \in 1..Len(released) :
                          x # y => released[x].addr # released[y].addr
                    /\ {released[x].addr : x \in 1..Len(released)} =
                          {m.addr : m \in Regions(mapped)}]_vars
\* a pool with max_arenas arenas, every block of which was handed out and
\* freed again, has been destroyed
C14_Witness ==
    /\ status = "destroyed"
    /\ Cardinality(Populated(ThePool)) = max_arenas
    /\ handed # {} /\ held = {}
    /\ Len(RegionUnmaps) = max_arenas
    /\ mapped = {}

\* every address
Addresses == 0..(SizeMod - 1)
\* C16: for every arena of the pool and every address, owns is true exactly
\* when the address lies in [base, base + usable_capacity), whatever the
\* state of the block there; for an address below base the unsigned
\* difference is at least usable_capacity and owns is false, and owns is
\* false for the addresses of the bitmap storage,
\* [base + usable_capacity, base + arena_size).
C16_OwnsExactlyPayloadRange ==
    \A k \in Populated(ThePool) :
       LET a == ThePool.arenas[k]
           cap == usable_capacity(a.block_size)
       IN  \A ptr \in Addresses :
              /\ owns(a, ptr) <=> (a.base_addr <= ptr /\ ptr < a.base_addr + cap)
              /\ ptr < a.base_addr =>
                    /\ ((ptr - a.base_addr) % SizeMod) >= cap
                    /\ ~owns(a, ptr)
              /\ (a.base_addr + cap <= ptr /\ ptr < a.base_addr + arena_size) =>
                    ~owns(a, ptr)
\* deallocate has just looked for the owner of a block of the second arena
\* (the first arena was asked and does not own it), the block is free and
\* still owned, and the caller holds a block of the first arena, which lies
\* below the base of the second
C16_Witness ==
    /\ last.op = "deallocate"
    /\ Populated(ThePool) = {1, 2}
    /\ owns(ThePool.arenas[2], last.ptr)
    /\ last.ptr \in FreedBlocksOf(ThePool)
    /\ \E h \in held : owns(ThePool.arenas[1], h.ptr) /\ h.ptr < ThePool.arenas[2].base_addr

(***************************************************************************)
(* unique_map<int, int>: the open-addressed Robin Hood table               *)
(***************************************************************************)
\* the bits of a metadata byte that hold the probe length (7 in the code)
PslBits == 2
\* log2 of default_capacity (4 in the code)
CapacityBits == 2
\* the keys of the calls are those of 0..MaxKey whose home in a table of
\* 2 * default_capacity slots is at most MaxHome, their values 1..MaxValue
MaxKey == 9
MaxHome == 2
MaxValue == 2
\* the table grows to at most MaxCapacity slots
MaxCapacity == 16

EMPTY == 0
OCCUPIED_BIT == 2 ^ PslBits
PSL_MASK == (2 ^ PslBits) - 1
default_capacity == 2 ^ CapacityBits
max_psl == (2 ^ PslBits) - 1

MapKeys == {k \in 0..MaxKey : k % (2 * default_capacity) <= MaxHome}
MapValues == 1..MaxValue

\* std::hash<int>: the value itself
hash_function(key) == key

\* the slots of a table of `count` slots
Slots(count) == 0..(count - 1)

\* a map object whose arrays are null (the members before reserve has run).
\* keys[i] and values[i] of a slot that is not occupied hold no object; the
\* code never reads them, and they are written 0 here. `ub` tells that a call
\* has read or freed memory it had already given back.
NullMap ==
    [metadata |-> <<>>, keys |-> <<>>, values |-> <<>>, capacity |-> 0,
     occupied_count |-> 0, ub |-> FALSE]

is_occupied(m, idx) == (m.metadata[idx] \div OCCUPIED_BIT) % 2 = 1

get_psl(m, idx) == m.metadata[idx] % (PSL_MASK + 1)

set_occupied(m, idx, psl) ==
    [m EXCEPT !.metadata[idx] = OCCUPIED_BIT + (psl % (PSL_MASK + 1))]

set_empty(m, idx) == [m EXCEPT !.metadata[idx] = EMPTY]

\* std::bit_ceil
RECURSIVE bit_ceil_from(_, _)
bit_ceil_from(n, p) == IF p >= n THEN p ELSE bit_ceil_from(n, 2 * p)

next_power_of_2(n) ==
    IF n <= default_capacity THEN default_capacity ELSE bit_ceil_from(n, 1)

allocate_arrays(m, count) ==
    [m EXCEPT !.metadata = [i \in Slots(count) |-> EMPTY],
              !.keys = [i \in Slots(count) |-> 0],
              !.values = [i \in Slots(count) |-> 0]]

\* the loop of find_index, from slot idx at distance dist
RECURSIVE find_probe(_, _, _, _)
find_probe(m, key, idx, dist) ==
    IF dist > max_psl THEN m.capacity
    ELSE IF ~is_occupied(m, idx) THEN m.capacity
    ELSE IF get_psl(m, idx) < dist THEN m.capacity
    ELSE IF m.keys[idx] = key THEN idx
    ELSE find_probe(m, key, (idx + 1) % m.capacity, dist + 1)

find_index(m, key) ==
    IF m.capacity = 0 THEN 0
    ELSE find_probe(m, key, hash_function(key) % m.capacity, 0)

\* writes the entry (k, v) with probe length psl into slot idx
PutSlot(m, idx, k, v, psl) ==
    set_occupied([m EXCEPT !.keys[idx] = k, !.values[idx] = v], idx, psl)

\* the loop of insert_slot_move; an entry whose probe length passes max_psl
\* is dropped (the assertion after the loop holds)
RECURSIVE insert_slot_probe(_, _, _, _, _)
insert_slot_probe(m, idx, k, v, psl_val) ==
    IF psl_val > max_psl THEN m
    ELSE IF ~is_occupied(m, idx) THEN PutSlot(m, idx, k, v, psl_val)
    ELSE LET slot_psl == get_psl(m, idx)
         IN  IF slot_psl < psl_val
             THEN insert_slot_probe(PutSlot(m, idx, k, v, psl_val),
                                    (idx + 1) % m.capacity,
                                    m.keys[idx], m.values[idx], slot_psl + 1)
             ELSE insert_slot_probe(m, (idx + 1) % m.capacity, k, v, psl_val + 1)

insert_slot_move(m, key, value) ==
    insert_slot_probe(m, hash_function(key) % m.capacity, key, value, 0)

\* the rehashing loop of reserve: the occupied slots of `old` from slot i on
RECURSIVE Rehash(_, _, _)
Rehash(m, old, i) ==
    IF i >= old.capacity THEN m
    ELSE IF is_occupied(old, i)
         THEN Rehash([insert_slot_move(m, old.keys[i], old.values[i])
                         EXCEPT !.occupied_count = @ + 1], old, i + 1)
         ELSE Rehash(m, old, i + 1)

\* reserve. Its branch for a new table that the old entries overfill frees
\* the new arrays, lets the recursive call read and free them again, and
\* rehashes nothing: the entries are lost.
reserve(m, n) ==
    LET new_capacity == next_power_of_2(n)
        fresh == [allocate_arrays(m, new_capacity)
                     EXCEPT !.capacity = new_capacity, !.occupied_count = 0]
    IN  IF new_capacity <= m.capacity THEN m
        ELSE IF m.capacity = 0 THEN fresh
        ELSE IF 8 * m.occupied_count > 7 * new_capacity
             THEN [allocate_arrays(fresh, 2 * new_capacity)
                      EXCEPT !.capacity = 2 * new_capacity, !.ub = TRUE]
        ELSE Rehash(fresh, m, 0)

\* the loop of emplace_impl: the entry in hand (k, v) with probe length
\* psl_val at slot idx. `inserting` is cleared by the first displacement,
\* and no later slot is taken from its entry.
RECURSIVE emplace_probe(_, _, _, _, _, _)
emplace_probe(m, idx, k, v, psl_val, inserting) ==
    IF psl_val > max_psl
    THEN [m |-> m, done |-> FALSE, inserted |-> FALSE, idx |-> idx, k |-> k, v |-> v]
    ELSE IF ~is_occupied(m, idx)
    THEN [m |-> [PutSlot(m, idx, k, v, psl_val) EXCEPT !.occupied_count = @ + 1],
          done |-> TRUE, inserted |-> TRUE, idx |-> idx, k |-> k, v |-> v]
    ELSE IF inserting /\ m.keys[idx] = k
    THEN [m |-> m, done |-> TRUE, inserted |-> FALSE, idx |-> idx, k |-> k, v |-> v]
    ELSE LET slot_psl == get_psl(m, idx)
         IN  IF inserting /\ slot_psl < psl_val
             THEN emplace_probe(PutSlot(m, idx, k, v, psl_val),
                                (idx + 1) % m.capacity,
                                m.keys[idx], m.values[idx], slot_psl + 1, FALSE)
             ELSE emplace_probe(m, (idx + 1) % m.capacity, k, v, psl_val + 1,
                                inserting)

\* emplace_impl: the map after the call, `inserted`, and the slot the
\* returned pointers name
RECURSIVE emplace_impl(_, _, _)
emplace_impl(m0, key, value) ==
    LET m == IF m0.capacity = 0 \/ 8 * (m0.occupied_count + 1) > 7 * m0.capacity
             THEN reserve(m0, IF m0.capacity = 0 THEN default_capacity
                              ELSE m0.capacity * 2)
             ELSE m0
        existing_idx == find_index(m, key)
    IN  IF existing_idx # m.capacity
        THEN [m |-> m, inserted |-> FALSE, idx |-> existing_idx]
        ELSE LET r == emplace_probe(m, hash_function(key) % m.capacity, key, value,
                                    0, TRUE)
             IN  IF r.done
                 THEN [m |-> r.m, inserted |-> r.inserted, idx |-> r.idx]
                 ELSE emplace_impl(reserve(r.m, r.m.capacity * 2), r.k, r.v)

emplace(m, key, value) == emplace_impl(m, key, value)

insert(m, key, value) == emplace(m, key, value)

\* the backward shift of erase_at: slot curr is empty, next follows it
RECURSIVE ShiftBack(_, _)
ShiftBack(m, curr) ==
    LET next == (curr + 1) % m.capacity
    IN  IF ~is_occupied(m, next) THEN m
        ELSE IF get_psl(m, next) = 0 THEN m
        ELSE ShiftBack(set_empty([PutSlot(m, curr, m.keys[next], m.values[next],
                                          get_psl(m, next) - 1)
                                     EXCEPT !.keys[next] = 0, !.values[next] = 0],
                                 next),
                       next)

erase_at(m, idx) ==
    ShiftBack([set_empty(m, idx) EXCEPT !.keys[idx] = 0, !.values[idx] = 0,
                                        !.occupied_count = @ - 1], idx)

\* erase(key): the map after the call and the count it returns
erase(m, key) ==
    LET idx == find_index(m, key)
    IN  IF idx = m.capacity THEN [m |-> m, ret |-> 0]
        ELSE [m |-> erase_at(m, idx), ret |-> 1]

\* find(key): the value the returned pointer names, 0 for nullptr
find(m, key) ==
    LET idx == find_index(m, key)
    IN  IF idx # m.capacity THEN m.values[idx] ELSE 0

contains(m, key) == find_index(m, key) # m.capacity

\* unique_map(initial_capacity)
unique_map(initial_capacity) == reserve(NullMap, initial_capacity)

(***************************************************************************)
(* SpecMap: one unique_map<int, int> and the calls made on it              *)
(***************************************************************************)
InitialCapacities == {0, default_capacity, default_capacity + 1}

InitMap ==
    /\ policy = "local"
    /\ elem = SharedElem
    /\ initialized = FALSE
    /\ pools = [i \in 1..num_size_classes |-> NoPool]
    /\ mapped = {}
    /\ held = {}
    /\ handed = {}
    /\ last = NoCall
    /\ status = "running"
    /\ th = [t \in Threads |-> IdleThread]
    /\ init_lock = FALSE
    /\ calls = NoCalls
    /\ \E n \in InitialCapacities : um = unique_map(n)
    /\ present = [k \in MapKeys |-> 0]
    /\ fl = NoFreelist
    /\ flu = NoUse
    /\ guards = NoGuards
    /\ acts = NoActs

MapFixed == <<policy, elem, initialized, pools, mapped, held, handed, last, status,
              th, init_lock, calls, fl, flu, guards, acts>>

\* what a map that holds `entries` holds after key -> value is put in
PutIn(entries, key, value) ==
    IF entries[key] = 0 THEN [entries EXCEPT ![key] = value] ELSE entries

\* map.emplace(key, value)
Emplace(key, value) ==
    /\ \E r \in {emplace(um, key, value)} :
          /\ r.m.capacity <= MaxCapacity
          /\ um' = r.m
    /\ present' = PutIn(present, key, value)
    /\ UNCHANGED MapFixed

\* map.insert(key, value)
Insert(key, value) ==
    /\ \E r \in {insert(um, key, value)} :
          /\ r.m.capacity <= MaxCapacity
          /\ um' = r.m
    /\ present' = PutIn(present, key, value)
    /\ UNCHANGED MapFixed

\* map.erase(key)
Erase(key) ==
    /\ um' = erase(um, key).m
    /\ present' = [present EXCEPT ![key] = 0]
    /\ UNCHANGED MapFixed

NextMap ==
    \/ \E key \in MapKeys, value \in MapValues : Emplace(key, value)
    \/ \E key \in MapKeys, value \in MapValues : Insert(key, value)
    \/ \E key \in MapKeys : Erase(key)

SpecMap == InitMap /\ [][NextMap]_vars

\* C20: find(k) and contains(k) succeed with the stored value for every key
\* that was put in and not erased, and fail for every other key.
C20_FindSeesExactlyThePresentKeys ==
    \A k \in MapKeys :
       /\ contains(um, k) = (present[k] # 0)
       /\ find(um, k) = present[k]

\* the slots of um that hold an entry, and those that hold key k
OccupiedSlots == {i \in Slots(um.capacity) : is_occupied(um, i)}
SlotsOf(k) == {i \in OccupiedSlots : um.keys[i] = k}

\* C21: emplace of a key that is in the map returns inserted = false with
\* pointers to the existing entry and leaves size() and the stored value
\* unchanged; no key occupies two slots, and size() is the number of
\* distinct keys present.
C21_DuplicateEmplaceChangesNothing ==
    /\ \A k \in MapKeys, v \in MapValues :
          present[k] # 0 =>
             LET r == emplace(um, k, v)
             IN  /\ ~r.inserted
                 /\ r.m.keys[r.idx] = k
                 /\ r.m.values[r.idx] = present[k]
                 /\ r.m.occupied_count = um.occupied_count
                 /\ find(r.m, k) = present[k]
    /\ \A k \in MapKeys : Cardinality(SlotsOf(k)) <= 1
    /\ um.occupied_count = Cardinality({k \in MapKeys : present[k] # 0})

\* the distance of slot i from the home slot of the key it holds
Distance(m, i) == (i + m.capacity - (hash_function(m.keys[i]) % m.capacity)) % m.capacity

\* every occupied slot of m stores its real distance from home, and the
\* slots from the home of its key up to it are all occupied
ProbeLengthsExact(m) ==
    \A i \in Slots(m.capacity) :
       is_occupied(m, i) =>
          /\ get_psl(m, i) = Distance(m, i)
          /\ \A d \in 0..Distance(m, i) :
                is_occupied(m, (i + m.capacity - d) % m.capacity)

\* C22: erase(k) returns 1 and decreases size() by one when k is present,
\* returns 0 and changes nothing when k is absent; after the backward shift
\* every occupied slot stores its real distance from the home slot of its
\* key, and no empty slot lies between that home slot and the slot.
C22_EraseRemovesOneAndKeepsProbeLengths ==
    \A k \in MapKeys :
       LET r == erase(um, k)
       IN  /\ present[k] # 0 =>
                /\ r.ret = 1
                /\ r.m.occupied_count = um.occupied_count - 1
                /\ ~contains(r.m, k)
           /\ present[k] = 0 => (r.ret = 0 /\ r.m = um)
           /\ ProbeLengthsExact(r.m)

(***************************************************************************)
(* freelist<int>: blocks of nodes chained into a free list                 *)
(***************************************************************************)
\* the nodes of the first block that pop allocates (64 in the code)
FirstBlockNodes == 2
\* the freelist allocates at most MaxBlocks blocks, its callers pop at most
\* MaxPops times
MaxBlocks == 3
MaxPops == 6

\* the state of the allocator front end, which the containers leave alone
FrontEnd == <<policy, elem, initialized, pools, mapped, held, handed, last, status,
              th, init_lock, calls>>

\* a node is <<b, i>>: node i of the b-th block of `blocks`; nullptr
NullNode == <<0, 0>>

\* the nodes of the b-th block, allocated with `count` nodes
BlockNodes(b, count) == {<<b, i>> : i \in 0..(count - 1)}

\* the members before the constructor body runs. `blocks` holds, for each
\* block pointer of the vector, the number of nodes it was allocated with.
EmptyFreelist ==
    [blocks |-> <<>>, next |-> <<>>, head |-> NullNode, in_use |-> 0,
     total_capacity |-> 0]

block_capacity(block_idx) == FirstBlockNodes * (2 ^ block_idx)

allocate_block(f, count) ==
    LET b == Len(f.blocks) + 1
        chain == [n \in BlockNodes(b, count) |->
                     IF n[2] < count - 1 THEN <<b, n[2] + 1>> ELSE f.head]
    IN  [f EXCEPT !.next = chain @@ f.next,
                  !.head = <<b, 0>>,
                  !.blocks = Append(@, count),
                  !.total_capacity = @ + count]

\* freelist(initial_capacity)
freelist(initial_capacity) ==
    IF initial_capacity > 0 THEN allocate_block(EmptyFreelist, initial_capacity)
    ELSE EmptyFreelist

\* the freelist before pop takes its node: with a new block if head is null
Refilled(f) ==
    IF f.head = NullNode
    THEN allocate_block(f, IF f.blocks = <<>> THEN FirstBlockNodes
                           ELSE block_capacity(Len(f.blocks) - 1) * 2)
    ELSE f

\* pop with the head left where it is
pop_keep(f) ==
    LET g == Refilled(f)
    IN  [fl |-> [g EXCEPT !.in_use = @ + 1], node |-> g.head]

\* pop(): the freelist after the call and the node returned
pop(f) ==
    LET g == Refilled(f)
    IN  [fl |-> [g EXCEPT !.head = g.next[g.head], !.in_use = @ + 1],
         node |-> g.head]

\* push that leaves in_use as it is
push_keep(f, node) == [f EXCEPT !.next[node] = f.head, !.head = node]

\* push(node)
push(f, node) ==
    [f EXCEPT !.next[node] = f.head, !.head = node, !.in_use = @ - 1]

capacity(f) == f.total_capacity

size(f) == f.in_use

available(f) == f.total_capacity - f.in_use

\* the nodes on the free chain from `node` on, counted up to `fuel`
RECURSIVE ChainLength(_, _, _)
ChainLength(f, node, fuel) ==
    IF node = NullNode \/ fuel = 0 THEN 0
    ELSE 1 + ChainLength(f, f.next[node], fuel - 1)

\* the length of the free chain (one more than capacity if it has a cycle)
FreeChain(f) == ChainLength(f, f.head, f.total_capacity + 1)

(***************************************************************************)
(* SpecFreelist: one freelist<int> and the pops and pushes of its callers  *)
(***************************************************************************)
InitialNodeCounts == {0, FirstBlockNodes \div 2, FirstBlockNodes, 2 * FirstBlockNodes}

InitFreelist ==
    /\ policy = "local"
    /\ elem = SharedElem
    /\ initialized = FALSE
    /\ pools = [i \in 1..num_size_classes |-> NoPool]
    /\ mapped = {}
    /\ held = {}
    /\ handed = {}
    /\ last = NoCall
    /\ status = "running"
    /\ th = [t \in Threads |-> IdleThread]
    /\ init_lock = FALSE
    /\ calls = NoCalls
    /\ um = NoMap
    /\ present = NoEntries
    /\ \E n \in InitialNodeCounts : fl = freelist(n)
    /\ flu = [pops |-> 0, pushes |-> 0, out |-> {}, pushed |-> <<>>]
    /\ guards = NoGuards
    /\ acts = NoActs

\* the sequence without the node
Without(seq, node) == SelectSeq(seq, LAMBDA n : n # node)

\* node = fl.pop()
Pop ==
    /\ flu.pops < MaxPops
    /\ fl.head = NullNode => Len(fl.blocks) < MaxBlocks
    /\ \E r \in {pop(fl)} :
          /\ fl' = r.fl
          /\ flu' = [flu EXCEPT !.pops = @ + 1,
                                !.out = @ \cup {r.node},
                                !.pushed = Without(@, r.node)]
    /\ UNCHANGED <<FrontEnd, um, present, guards, acts>>

\* fl.push(node), for a node that a pop returned and that was not pushed since
Push(node) ==
    /\ node \in flu.out
    /\ fl' = push(fl, node)
    /\ flu' = [flu EXCEPT !.pushes = @ + 1,
                          !.out = @ \ {node},
                          !.pushed = Append(@, node)]
    /\ UNCHANGED <<FrontEnd, um, present, guards, acts>>

NextFreelist ==
    \/ Pop
    \/ \E node \in flu.out : Push(node)

SpecFreelist == InitFreelist /\ [][NextFreelist]_vars

\* C23: size() is pops minus pushes, available() is capacity() - size(), and
\* the free chain holds available() nodes.
C23_SizeAndChainFollowTheCalls ==
    /\ size(fl) = flu.pops - flu.pushes
    /\ available(fl) = capacity(fl) - size(fl)
    /\ FreeChain(fl) = available(fl)

\* pops and pushes have happened, a second block was allocated, and nodes
\* are out
C23_Witness ==
    /\ flu.pops >= 3
    /\ flu.pushes >= 2
    /\ Len(fl.blocks) >= 2
    /\ size(fl) = 1
    /\ FreeChain(fl) = capacity(fl) - 1

\* twice the nodes of the block allocated last, FirstBlockNodes if there
\* is no block
TwiceLastBlock(f) ==
    IF f.blocks = <<>> THEN FirstBlockNodes ELSE 2 * f.blocks[Len(f.blocks)]

\* C24: a pop that finds the free chain empty allocates one block of twice
\* the nodes of the block allocated last (FirstBlockNodes if there is none),
\* and capacity() grows by exactly that many, whatever the initial capacity.
C24_GrowthDoublesLastBlock ==
    fl.head = NullNode =>
       LET g == pop(fl).fl
       IN  /\ Len(g.blocks) = Len(fl.blocks) + 1
           /\ g.blocks[Len(g.blocks)] = TwiceLastBlock(fl)
           /\ capacity(g) = capacity(fl) + TwiceLastBlock(fl)

\* C25: pop returns the node pushed last and not popped since, and never a
\* node that a caller still holds.
C25_LastInFirstOut ==
    LET r == pop(fl)
    IN  /\ flu.pushed # <<>> => r.node = flu.pushed[Len(flu.pushed)]
        /\ r.node \notin flu.out
        /\ r.node # NullNode

\* two nodes were pushed in an order other than that of their pops, and a
\* caller still holds a node
C25_Witness ==
    /\ Len(flu.pushed) >= 2
    /\ flu.out # {}
    /\ flu.pops >= 4
    /\ pop(fl).node = flu.pushed[Len(flu.pushed)]
    /\ flu.pushed[1][2] > flu.pushed[2][2]

(***************************************************************************)
(* defer<F>: a scope guard that runs its action when it is destroyed       *)
(***************************************************************************)
\* the guards of the scope, and the invocations the model follows
NumGuards == 3
MaxRuns == 4

Guards == 1..NumGuards

\* the storage of a guard before its constructor has run; `fn` names the
\* action the callable performs, `life` is "none", "alive" or "dead"
NoGuard == [life |-> "none", fn |-> 0, active |-> FALSE]

\* what a member function did: the guards after it, the actions it invoked
\* in order, and whether it left by an exception
DeferResult(gs, ran, threw) == [gs |-> gs, ran |-> ran, threw |-> threw]

\* defer(F&& fn)
defer(gs, g, fn) ==
    DeferResult([gs EXCEPT ![g] = [life |-> "alive", fn |-> fn, active |-> TRUE]],
                <<>>, FALSE)

\* defer(defer&& other)
defer_move(gs, g, other) ==
    DeferResult([gs EXCEPT ![g] = [life |-> "alive", fn |-> gs[other].fn,
                                   active |-> gs[other].active],
                           ![other].active = FALSE],
                <<>>, FALSE)

\* the assignments of operator=(defer&&) after the target's action has run
TakeOver(gs, g, other) ==
    [gs EXCEPT ![g].fn = gs[other].fn,
               ![g].active = gs[other].active,
               ![other].active = FALSE]

\* operator=(defer&& other); `throws` tells whether the invocation of the
\* target's action leaves by an exception
move_assign(gs, g, other, throws) ==
    IF g = other THEN DeferResult(gs, <<>>, FALSE)
    ELSE IF gs[g].active
         THEN IF throws
              THEN DeferResult(gs, <<gs[g].fn>>, TRUE)
              ELSE DeferResult(TakeOver(gs, g, other), <<gs[g].fn>>, FALSE)
         ELSE DeferResult(TakeOver(gs, g, other), <<>>, FALSE)

\* ~defer()
defer_destroy(gs, g, throws) ==
    LET dead == [gs EXCEPT ![g].life = "dead"]
    IN  IF gs[g].active THEN DeferResult(dead, <<gs[g].fn>>, throws)
        ELSE DeferResult(dead, <<>>, FALSE)

\* cancel()
cancel(gs, g) == DeferResult([gs EXCEPT ![g].active = FALSE], <<>>, FALSE)

\* execute()
execute(gs, g, throws) ==
    IF gs[g].active
    THEN DeferResult([gs EXCEPT ![g].active = FALSE], <<gs[g].fn>>, throws)
    ELSE DeferResult(gs, <<>>, FALSE)

is_active(gs, g) == gs[g].active

(***************************************************************************)
(* SpecDefer: the guards of one scope, from construction to destruction    *)
(***************************************************************************)
InitDefer ==
    /\ policy = "local"
    /\ elem = SharedElem
    /\ initialized = FALSE
    /\ pools = [i \in 1..num_size_classes |-> NoPool]
    /\ mapped = {}
    /\ held = {}
    /\ handed = {}
    /\ last = NoCall
    /\ status = "running"
    /\ th = [t \in Threads |-> IdleThread]
    /\ init_lock = FALSE
    /\ calls = NoCalls
    /\ um = NoMap
    /\ present = NoEntries
    /\ fl = NoFreelist
    /\ flu = NoUse
    /\ guards = [g \in Guards |-> NoGuard]
    /\ acts = [runs |-> <<>>, made |-> {}, cancelled |-> {}, before |-> {},
               threw |-> FALSE]

Containers == <<um, present, fl, flu>>

Alive(g) == guards[g].life = "alive"

\* the step of a member function with result r
DeferStep(r) ==
    /\ Len(acts.runs) + Len(r.ran) <= MaxRuns
    /\ guards' = r.gs
    /\ acts' = [acts EXCEPT !.runs = @ \o r.ran, !.threw = @ \/ r.threw]
    /\ UNCHANGED <<FrontEnd, Containers>>

\* defer g(fn): the guard g is made with the action g
Construct(g) ==
    /\ guards[g].life = "none"
    /\ guards' = defer(guards, g, g).gs
    /\ acts' = [acts EXCEPT !.made = @ \cup {g}]
    /\ UNCHANGED <<FrontEnd, Containers>>

\* defer g(std::move(other))
MoveConstruct(g, other) ==
    /\ guards[g].life = "none"
    /\ Alive(other)
    /\ DeferStep(defer_move(guards, g, other))

\* g = std::move(other)
MoveAssign(g, other) ==
    /\ Alive(g)
    /\ Alive(other)
    /\ \E throws \in BOOLEAN :
       \E r \in {move_assign(guards, g, other, throws)} :
          /\ Len(acts.runs) + Len(r.ran) <= MaxRuns
          /\ guards' = r.gs
          /\ acts' = [acts EXCEPT
                         !.runs = @ \o r.ran,
                         !.threw = @ \/ r.threw,
                         !.before = IF ~r.threw /\ g # other /\ guards[g].active
                                       /\ guards[other].active
                                    THEN @ \cup {<<guards[g].fn, guards[other].fn>>}
                                    ELSE @]
          /\ UNCHANGED <<FrontEnd, Containers>>

\* g.execute()
Execute(g) ==
    /\ Alive(g)
    /\ \E throws \in BOOLEAN : DeferStep(execute(guards, g, throws))

\* g.cancel()
Cancel(g) ==
    /\ Alive(g)
    /\ guards' = cancel(guards, g).gs
    /\ acts' = [acts EXCEPT !.cancelled = IF guards[g].active
                                          THEN @ \cup {guards[g].fn} ELSE @]
    /\ UNCHANGED <<FrontEnd, Containers>>

\* g leaves its scope
Destroy(g) ==
    /\ Alive(g)
    /\ \E throws \in BOOLEAN : DeferStep(defer_destroy(guards, g, throws))

NextDefer ==
    \/ \E g \in Guards : Construct(g)
    \/ \E g, other \in Guards : MoveConstruct(g, other)
    \/ \E g, other \in Guards : MoveAssign(g, other)
    \/ \E g \in Guards : Execute(g)
    \/ \E g \in Guards : Cancel(g)
    \/ \E g \in Guards : Destroy(g)

SpecDefer == InitDefer /\ [][NextDefer]_vars

\* how often the action a was invoked
Runs(a) == Cardinality({i \in 1..Len(acts.runs) : acts.runs[i] = a})

\* every guard that was made is destroyed, and one was made
AllDestroyed ==
    /\ acts.made # {}
    /\ \A g \in Guards : guards[g].life # "alive"

\* the place of the first invocation of a in the runs, 0 if there is none
FirstRun(a) ==
    IF Runs(a) = 0 THEN 0
    ELSE CHOOSE i \in 1..Len(acts.runs) :
            /\ acts.runs[i] = a
            /\ \A j \in 1..(i - 1) : acts.runs[j] # a

\* C26: over any sequence of execute(), cancel() and moves followed by the
\* destruction of every guard the deferred action runs at most once; it runs
\* exactly once unless cancel() was called on the guard that owned it before
\* it ran; execute() on an inactive guard does nothing.
C26_ActionRunsAtMostOnce ==
    /\ \A a \in Guards : Runs(a) <= 1
    /\ AllDestroyed => \A a \in acts.made \ acts.cancelled : Runs(a) = 1
    /\ \A a \in acts.cancelled : Runs(a) = 0
    /\ \A g \in Guards, throws \in BOOLEAN :
          (Alive(g) /\ ~is_active(guards, g)) =>
             (execute(guards, g, throws).gs = guards
              /\ execute(guards, g, throws).ran = <<>>)

\* C27: move construction and move assignment leave the source inactive and
\* give the target the source's action and activity; move assignment first
\* runs the target's own action if and only if the target was active; over
\* the whole sequence each action runs exactly once, the target's old action
\* before the moved-in one.
C27_MoveTransfersAndRunsOldFirst ==
    /\ \A g, other \in Guards :
          (Alive(g) /\ Alive(other) /\ g # other) =>
             LET r == move_assign(guards, g, other, FALSE)
             IN  /\ ~is_active(r.gs, other)
                 /\ r.gs[g].fn = guards[other].fn
                 /\ is_active(r.gs, g) = is_active(guards, other)
                 /\ r.ran = IF is_active(guards, g) THEN <<guards[g].fn>> ELSE <<>>
    /\ \A g, other \in Guards :
          (guards[g].life = "none" /\ Alive(other)) =>
             LET r == defer_move(guards, g, other)
             IN  /\ ~is_active(r.gs, other)
                 /\ r.gs[g].fn = guards[other].fn
                 /\ is_active(r.gs, g) = is_active(guards, other)
                 /\ r.ran = <<>>
    /\ \A a \in Guards : Runs(a) <= 1
    /\ AllDestroyed => \A a \in acts.made \ acts.cancelled : Runs(a) = 1
    /\ \A p \in acts.before :
          Runs(p[2]) > 0 => (Runs(p[1]) > 0 /\ FirstRun(p[1]) < FirstRun(p[2]))

\* as long as no invocation has left by an exception, the actions run at
\* most once, exactly once unless cancelled, and the moves hand the action
\* over with the old action of the target run first
HoldsWhileNothingThrows ==
    ~acts.threw => (C26_ActionRunsAtMostOnce /\ C27_MoveTransfersAndRunsOldFirst)

(***************************************************************************)
(* SpecShared: the slots a thread dereferences                             *)
(***************************************************************************)
\* C28: a thread that has read num_arenas and is about to call allocate()
\* through arenas[k], k below the value it read, finds a constructed arena
\* in that slot, also while another thread has reserved a slot and not yet
\* stored its arena.
C28_SlotsBelowNumHoldArenas ==
    \A t \in Threads :
       (At(t, "pa_arena") /\ th[t].k < th[t].num) => Ar(t) # NoArena

(***************************************************************************)
(* Spec: where the blocks of an arena lie                                  *)
(***************************************************************************)
\* C29: every block arena::allocate has returned lies inside the payload
\* area [base, base + usable_capacity) of its arena: its offset plus
\* block_size is at most usable_capacity, so it does not reach the bitmap
\* words stored behind the payload, and its index is below num_blocks; for
\* every size class, also those whose block size does not divide
\* usable_capacity.
C29_BlocksInsidePayload ==
    \A a \in AllArenas :
       \A q \in BumpBlocks(a) :
          /\ (q - a.base_addr) + a.block_size <= usable_capacity(a.block_size)
          /\ (q - a.base_addr) \div a.block_size < num_blocks(a.block_size)

(***************************************************************************)
(* SpecSharedSmall: the threads of SpecShared on the pool of the smallest  *)
(* size class, whose arenas have several blocks in one L2 region           *)
(***************************************************************************)
\* the element type of the smallest size class
SmallElem == CHOOSE T \in ElemTypes : \A U \in ElemTypes : T.size <= U.size

InitSharedSmall ==
    /\ policy = "shared"
    /\ elem = SmallElem
    /\ initialized = TRUE
    /\ \E r \in {InitPools([i \in 1..num_size_classes |-> NoPool], {}, 0, ClassIndices)} :
          pools = r.pools /\ mapped = r.mapped
    /\ held = {}
    /\ handed = {}
    /\ last = NoCall
    /\ status = "running"
    /\ th = [t \in Threads |-> IdleThread]
    /\ init_lock = FALSE
    /\ calls = NoCalls
    /\ um = NoMap
    /\ present = NoEntries
    /\ fl = NoFreelist
    /\ flu = NoUse
    /\ guards = NoGuards
    /\ acts = NoActs

SpecSharedSmall == InitSharedSmall /\ [][NextShared]_vars

\* no thread is inside allocate or deallocate
AllIdle == status = "running" /\ \A t \in Threads : th[t].pc = "idle"
\* block q of arena a has its L2 bit set
L2BitSet(a, q) ==
    LET block_index == pointer_to_block_index(a, q)
    IN  (block_index % WordBits) \in a.l2[(block_index \div WordBits) + 1]
\* the L1 bit of the region of block q of arena a is set
L1BitSet(a, q) ==
    LET l1_bit == (pointer_to_block_index(a, q) \div WordBits) \div l2_per_l1
    IN  (l1_bit % WordBits) \in a.l1[(l1_bit \div WordBits) + 1]

\* C30: under the shared policy, whenever every thread is idle, each block
\* that was handed out and is held by no caller (it was freed and not
\* allocated again) has its L2 bit set and the L1 bit of its region set, so
\* that a later allocate can find it; also after a deallocate ran alongside
\* an allocate that emptied the same L2 region.
C30_FreedBlocksStayVisible ==
    AllIdle =>
       \A a \in ArenasOf(SP) :
          \A q \in BumpBlocks(a) \ HeldPtrs : L2BitSet(a, q) /\ L1BitSet(a, q)

(***************************************************************************)
(* Spec: the three states of a block                                       *)
(***************************************************************************)
\* the block indices the L2 bitmap of arena a has a bit for
BitIndices(a) == 0..(l2_words(a.block_size) * WordBits - 1)
\* the L2 bit of block index b of arena a is set
L2Bit(a, b) == (b % WordBits) \in a.l2[(b \div WordBits) + 1]
\* the callers' pairs that hold block index b of arena a
HoldersOf(a, b) == {h \in held : h.ptr = a.base_addr + b * a.block_size}

\* SpecStores: the calls of Spec and the stores of the caller into the
\* blocks it holds.  The words of the arena's bitmaps lie in the same
\* region as the blocks, from base_addr + usable_capacity on: the L2 words
\* first, the L1 words behind them.
\* the address of L2 word w (from 1) of arena a, and of L1 word w
L2WordAddr(a, w) == a.base_addr + usable_capacity(a.block_size) + (w - 1) * WordBytes
L1WordAddr(a, w) == L2WordAddr(a, l2_words(a.block_size) + w)
\* the words of arena a that the block at ptr covers
L2Covered(a, ptr) ==
    {w \in DOMAIN a.l2 : ptr <= L2WordAddr(a, w)
                            /\ L2WordAddr(a, w) + WordBytes <= ptr + a.block_size}
L1Covered(a, ptr) ==
    {w \in DOMAIN a.l1 : ptr <= L1WordAddr(a, w)
                            /\ L1WordAddr(a, w) + WordBytes <= ptr + a.block_size}
\* the values the caller stores into a word: it fills its block with zero
\* bytes or with 0xFF bytes (std::memset)
WordValues == {{}, 0..(WordBits - 1)}

\* the caller stores into the bytes of a block it holds: the bitmap words
\* the block covers take the values stored, and nothing else of the
\* allocator changes
Store(h) ==
    /\ status = "running"
    /\ h \in held
    /\ \E i \in 1..num_size_classes :
          /\ pools[i] # NoPool
          /\ \E k \in 1..max_arenas :
                LET a == pools[i].arenas[k]
                IN  /\ a # NoArena
                    /\ a.base_addr <= h.ptr /\ h.ptr < a.base_addr + arena_size
                    /\ \E l2new \in [L2Covered(a, h.ptr) -> WordValues],
                          l1new \in [L1Covered(a, h.ptr) -> WordValues] :
                          pools' = [pools EXCEPT ![i].arenas[k] =
                             [a EXCEPT
                                !.l2 = [w \in DOMAIN a.l2 |->
                                          IF w \in L2Covered(a, h.ptr)
                                          THEN l2new[w] ELSE a.l2[w]],
                                !.l1 = [w \in DOMAIN a.l1 |->
                                          IF w \in L1Covered(a, h.ptr)
                                          THEN l1new[w] ELSE a.l1[w]]]]
    /\ last' = [NoCall EXCEPT !.op = "store"]
    /\ UNCHANGED <<policy, elem, initialized, mapped, held, handed, status,
                   th, init_lock, calls, Outside>>

NextStores ==
    \/ \E n \in Counts : Allocate(n)
    \/ \E arg \in DeallocArgs : Deallocate(arg)
    \/ ThreadExit
    \/ \E h \in held : Store(h)

\* the local policy and the element type of SpecShared, whose size class has
\* a block size that does not divide usable_capacity
InitStores == Init /\ policy = "local" /\ elem = SharedElem

SpecStores == InitStores /\ [][NextStores]_vars

\* C31: with correctly paired calls, every block index of every arena is
\* in exactly one of three states: at or above the bump index with its L2
\* bit clear and held by nobody (never allocated), below the bump index
\* with its L2 bit set and held by nobody (free), or below the bump index
\* with its L2 bit clear and held by exactly one caller.
C31_BlockInOneOfThreeStates ==
    \A a \in AllArenas :
       \A b \in BitIndices(a) :
          IF b * a.block_size >= a.bump_offset
          THEN ~L2Bit(a, b) /\ HoldersOf(a, b) = {}
          ELSE IF L2Bit(a, b) THEN HoldersOf(a, b) = {}
          ELSE Cardinality(HoldersOf(a, b)) = 1

(***************************************************************************)
(* Spec: the L1 summary of the L2 words (local policy)                     *)
(***************************************************************************)
\* the L1 bit indices the L1 bitmap of arena a has a bit for
L1Indices(a) == 0..(l1_words(a.block_size) * WordBits - 1)
\* L1 bit r of arena a is set
L1Bit(a, r) == (r % WordBits) \in a.l1[(r \div WordBits) + 1]
\* some L2 word of the region of L1 bit r of arena a is non-zero
RegionHasFree(a, r) ==
    \E i \in 0..(l2_per_l1 - 1) :
       /\ r * l2_per_l1 + i < l2_words(a.block_size)
       /\ a.l2[r * l2_per_l1 + i + 1] # {}

\* C32: under the local policy, after every allocate() and every
\* deallocate(), an L1 bit of an arena is set if and only if some L2 word of
\* its region is non-zero.
C32_L1SummarizesL2 ==
    (policy = "local" /\ last.op \in {"allocate", "deallocate"}) =>
       \A a \in AllArenas :
          \A r \in L1Indices(a) : L1Bit(a, r) <=> RegionHasFree(a, r)

(***************************************************************************)
(* SpecSharedGrow: the threads of SpecShared with an OS that refuses no    *)
(* mapping of an arena                                                     *)
(***************************************************************************)
NextSharedGrow ==
    \E t \in Threads :
       \/ LoadCurrent(t) \/ LoadNum(t) \/ EnterArena(t) \/ BumpCas(t)
       \/ CountStep(t) \/ L1Load(t) \/ L2Load(t) \/ L2Cas(t)
       \/ UpdateL1Scan(t) \/ UpdateL1Set(t) \/ StoreCurrentAfterScan(t)
       \/ Grow(t) \/ GrowStore(t) \/ StoreCurrentAfterGrow(t) \/ Return(t)
       \/ StartDeallocate(t) \/ MarkFreeL2(t) \/ MarkFreeL1(t)

SpecSharedGrow == InitShared /\ [][NextSharedGrow]_vars

\* the slots of the pool that hold an arena
PopulatedSlots == {k \in 1..max_arenas : SP.arenas[k] # NoArena}
\* thread t has reserved a slot with the CAS on num_arenas and has not
\* stored its arena yet
HasReserved(t) == th[t].pc = "pa_construct"
\* C33: under the shared policy, with an OS that refuses no mapping, when
\* several threads find every arena full at the same time, each successful
\* reservation is of a slot of its own that holds no arena yet, the arenas
\* in the slots are distinct objects with distinct regions (each slot is
\* populated by one arena), and once all threads are idle num_arenas is the
\* number of arenas created, which fill the slots below it.
C33_OneArenaPerReservedSlot ==
    /\ \A t \in Threads, u \in Threads :
          (HasReserved(t) /\ HasReserved(u) /\ t # u) => th[t].num # th[u].num
    /\ \A t \in Threads : HasReserved(t) => (th[t].num + 1) \notin PopulatedSlots
    /\ \A k \in PopulatedSlots, l \in PopulatedSlots :
          k # l => /\ SP.arenas[k].self # SP.arenas[l].self
                   /\ SP.arenas[k].base_addr # SP.arenas[l].base_addr
    /\ AllIdle => /\ SP.num_arenas = Cardinality(PopulatedSlots)
                  /\ PopulatedSlots = 1..SP.num_arenas
\* both threads found the one arena full and went on to grow the pool; one
\* has reserved the second slot, the other lost the CAS and starts again
C33_Witness ==
    \E t \in Threads, u \in Threads :
       /\ HasReserved(t) /\ th[t].num = 1
       /\ th[u].pc = "pa_restart"
       /\ PopulatedSlots = {1}

(***************************************************************************)
(* Spec: when a pool of the local policy grows                             *)
(***************************************************************************)
\* arena a has a block for a request: its bump region is not used up, or a
\* block of its payload area is free
CanServe(a) ==
    \/ a.bump_offset < usable_capacity(a.block_size)
    \/ \E b \in FreeIndices(a) : b < num_blocks(a.block_size)
\* the step is a call of allocate under the local policy
LocalAllocateStep == policy = "local" /\ last'.op = "allocate"
\* the step populated a slot of the pool at index i
Grew(i) ==
    /\ pools'[i] # NoPool
    /\ pools'[i].num_arenas > pools[i].num_arenas
\* the arena of pool p that current_arena names
CurrentArena(p) == p.arenas[p.current_arena + 1]

\* C34: under the local policy a call of arena_pool::allocate creates an
\* arena only when no arena the pool had could serve the request (each of
\* them returned nullptr in the call), and after a call that returned a
\* block current_arena is the index of the arena the block lies in.
C34_GrowsOnlyWhenNoArenaServes ==
    [][LocalAllocateStep =>
          \A i \in 1..num_size_classes :
             /\ Grew(i) =>
                   \A k \in 1..pools[i].num_arenas :
                      /\ arena_allocate(pools[i].arenas[k]).ptr = NullPtr
                      /\ ~CanServe(pools[i].arenas[k])
             /\ (last'.path = "pool" /\ last'.ptr # NullPtr /\ i = PoolIndex(last'.n) + 1)
                   => /\ CurrentArena(pools'[i]) # NoArena
                      /\ CurrentArena(pools'[i]).base_addr <= last'.ptr
                      /\ last'.ptr < CurrentArena(pools'[i]).base_addr + arena_size]_vars
\* the part of C34 that the order of the loops gives: the pool grows only
\* after arena::allocate returned nullptr for every arena it had, and
\* current_arena names the arena that served the call
GrowsAfterEveryArenaRefused ==
    [][LocalAllocateStep =>
          \A i \in 1..num_size_classes :
             /\ Grew(i) =>
                   \A k \in 1..pools[i].num_arenas :
                      arena_allocate(pools[i].arenas[k]).ptr = NullPtr
             /\ (last'.path = "pool" /\ last'.ptr # NullPtr /\ i = PoolIndex(last'.n) + 1)
                   => /\ CurrentArena(pools'[i]) # NoArena
                      /\ CurrentArena(pools'[i]).base_addr <= last'.ptr
                      /\ last'.ptr < CurrentArena(pools'[i]).base_addr + arena_size]_vars

(***************************************************************************)
(* SpecFreelist: what the destructor gives back                            *)
(***************************************************************************)
\* destroy_lives(): the nodes the scan of the blocks visits (the destructor
\* calls it for an element type that is not trivially destructible)
destroy_lives(f) ==
    UNION {BlockNodes(b, block_capacity(b - 1)) : b \in 1..Len(f.blocks)}
\* ~freelist(): the nodes destroy_lives visits and, for each block of
\* `blocks`, the node count passed to allocator_traits::deallocate
freelist_destroy(f) ==
    [visited |-> destroy_lives(f),
     deallocated |-> [b \in 1..Len(f.blocks) |-> block_capacity(b - 1)]]
\* operator=(freelist&& other), for this != &other: the destructor runs on
\* the target, which is then constructed from other
freelist_move_assign(f, other) ==
    [destroyed |-> freelist_destroy(f), fl |-> other]
\* the nodes of the blocks freelist f has allocated
AllocatedNodes(f) == UNION {BlockNodes(b, f.blocks[b]) : b \in 1..Len(f.blocks)}

\* C35: the destructor, also when move assignment runs it, gives every
\* block back to the allocator with the node count the block was allocated
\* with, and its scan of the live objects visits only nodes of allocated
\* blocks; for every initial capacity.
C35_BlocksGivenBackWithTheirCount ==
    /\ freelist_destroy(fl).deallocated = fl.blocks
    /\ freelist_destroy(fl).visited \subseteq AllocatedNodes(fl)
    /\ \A n \in InitialNodeCounts :
          LET r == freelist_move_assign(fl, freelist(n))
          IN  /\ r.destroyed.deallocated = fl.blocks
              /\ r.destroyed.visited \subseteq AllocatedNodes(fl)
              /\ r.fl = freelist(n)

(***************************************************************************)
(* SpecLocalThreads: several threads using allocator<T, local>.  The array *)
(* `pools` and the flag `initialized` of get_pools are thread_local: here  *)
(* `pools` and `initialized` hold one value per thread.  `held` says which *)
(* thread allocated a block, `last` which thread made the call, `calls`    *)
(* how many calls each thread has made.  The OS refuses no mapping.        *)
(***************************************************************************)
\* each thread makes at most this many calls
MaxLocalCalls == 4

\* a call made by thread `by` with a block that thread `owner` allocated
ThreadCall(op, n, ptr, r, by, owner) ==
    [op |-> op, n |-> n, ptr |-> ptr, how |-> r.how, path |-> r.path,
     failed |-> r.failed, chain |-> 0, by |-> by, owner |-> owner]

InitLocalThreads ==
    /\ policy = "local"
    /\ elem = SharedElem
    /\ initialized = [t \in Threads |-> FALSE]
    /\ pools = [t \in Threads |-> [i \in 1..num_size_classes |-> NoPool]]
    /\ mapped = {}
    /\ held = {}
    /\ handed = {}
    /\ last = ThreadCall("none", 0, NullPtr, NoCall, 0, 0)
    /\ status = "running"
    /\ th = [t \in Threads |-> IdleThread]
    /\ init_lock = FALSE
    /\ calls = NoCalls
    /\ um = NoMap
    /\ present = NoEntries
    /\ fl = NoFreelist
    /\ flu = NoUse
    /\ guards = NoGuards
    /\ acts = NoActs

\* the arenas of the pools of one thread
ArenasIn(ps) ==
    UNION {ArenasOf(ps[i]) : i \in {j \in 1..num_size_classes : ps[j] # NoPool}}
\* a get_pools whose variables are static: one instance for all threads
\* (C36 depends on the variables being thread_local)
static_instance(t) == 1
\* the instance of the thread_local variables `pools` and `initialized` of
\* get_pools that thread t uses
thread_local_instance(t) == t

\* the bound of the model on alloc_count and on the direct allocations
WithinBoundsOf(t, n) ==
    /\ \A a \in ArenasIn(pools[thread_local_instance(t)]) : a.alloc_count < MaxAllocCount
    /\ (n # 0 /\ is_large(round_to_size_class(alloc_bytes(elem, n))))
          => Cardinality({m \in mapped : m.kind = "large"}) < MaxLarge

\* thread t calls allocate(n)
LocalAllocate(t, n) ==
    /\ status = "running"
    /\ calls[t] < MaxLocalCalls
    /\ calls' = [calls EXCEPT ![t] = @ + 1]
    /\ WithinBoundsOf(t, n)
    /\ \E r \in {allocate("local", elem, initialized[thread_local_instance(t)],
                           pools[thread_local_instance(t)], mapped, n,
                           ClassIndices, TRUE, TRUE, TRUE)} :
          /\ initialized' = [initialized EXCEPT ![thread_local_instance(t)] = r.initialized]
          /\ pools' = [pools EXCEPT ![thread_local_instance(t)] = r.pools]
          /\ mapped' = r.mapped
          /\ held' = IF r.ptr # NullPtr
                     THEN held \cup {[ptr |-> r.ptr, n |-> n, by |-> t]} ELSE held
          /\ handed' = IF r.ptr # NullPtr /\ r.path = "pool"
                       THEN handed \cup {r.ptr} ELSE handed
          /\ last' = ThreadCall("allocate", n, r.ptr, r, t, t)
          /\ status' = StatusAfter(r.how)
    /\ UNCHANGED <<policy, elem, th, init_lock, Outside>>

\* thread t calls deallocate(h.ptr, h.n) with a block some thread holds
LocalDeallocate(t, h) ==
    /\ status = "running"
    /\ calls[t] < MaxLocalCalls
    /\ calls' = [calls EXCEPT ![t] = @ + 1]
    /\ h \in held
    /\ \E r \in {deallocate(elem, initialized[thread_local_instance(t)],
                             pools[thread_local_instance(t)], mapped, h.ptr, h.n,
                             ClassIndices)} :
          /\ initialized' = [initialized EXCEPT ![thread_local_instance(t)] = r.initialized]
          /\ pools' = [pools EXCEPT ![thread_local_instance(t)] = r.pools]
          /\ mapped' = r.mapped
          /\ held' = held \ {h}
          /\ last' = ThreadCall("deallocate", h.n, h.ptr, r, t, h.by)
          /\ status' = StatusAfter(r.how)
    /\ UNCHANGED <<policy, elem, handed, th, init_lock, Outside>>

NextLocalThreads ==
    \E t \in Threads :
       \/ \E n \in Counts : LocalAllocate(t, n)
       \/ \E h \in held : LocalDeallocate(t, h)

SpecLocalThreads == InitLocalThreads /\ [][NextLocalThreads]_vars

\* the arenas of every thread
ThreadArenas == UNION {ArenasIn(pools[t]) : t \in Threads}
\* the block at ptr was handed out by an arena, no caller holds it and its
\* L2 bit is clear: no allocate can find it
Lost(ptr) ==
    /\ ptr \notin HeldPtrs
    /\ \E a \in ThreadArenas :
          /\ a.base_addr <= ptr /\ ptr < a.base_addr + a.bump_offset
          /\ ~L2BitSet(a, ptr)
\* the step is a deallocate of a pool block by a thread that did not
\* allocate it
ForeignDeallocateStep ==
    /\ last'.op = "deallocate" /\ last'.path = "pool"
    /\ last'.by # last'.owner
    /\ held' # held

CountInputs == 1..(SizeMod - 1)

InitCounts ==
    /\ policy = "local"
    /\ elem \in ElemTypes
    /\ initialized = FALSE
    /\ pools = [i \in 1..num_size_classes |-> NoPool]
    /\ mapped = {}
    /\ held = {}
    /\ handed = {}
    /\ \E n \in CountInputs :
          last = [op |-> "none", n |-> n, size_class |-> 0, index |-> 0, ptr |-> NullPtr,
                  how |-> "return", path |-> "zero"]
    /\ status = "running"
    /\ th = [t \in Threads |-> IdleThread]
    /\ init_lock = FALSE
    /\ calls = NoCalls
    /\ um = NoMap
    /\ present = NoEntries
    /\ fl = NoFreelist
    /\ flu = NoUse
    /\ guards = NoGuards
    /\ acts = NoActs

\* p = alloc.allocate(n); size_class is the class the call computed
AllocateCount ==
    /\ last.op = "none"
    /\ \E r \in {allocate(policy, elem, initialized, pools, mapped, last.n,
                           ClassIndices, TRUE, TRUE, TRUE)} :
          /\ initialized' = r.initialized
          /\ pools' = r.pools
          /\ mapped' = r.mapped
          /\ held' = IF r.ptr # NullPtr THEN {[ptr |-> r.ptr, n |-> last.n]} ELSE {}
          /\ handed' = IF r.ptr # NullPtr /\ r.path = "pool" THEN {r.ptr} ELSE {}
          /\ last' = [last EXCEPT !.op = "allocate", !.ptr = r.ptr, !.how = r.how,
                                  !.path = r.path,
                                  !.size_class =
                                     round_to_size_class(alloc_bytes(elem, last.n))]
    /\ UNCHANGED <<status, SizesFixed>>

NextCounts == AllocateCount \/ DeallocateBytes

SpecCounts == InitCounts /\ [][NextCounts]_vars

\* the bytes of the storage allocate returned at ptr: the block size of the
\* arena it lies in, or the length of the mapping made for it
ServedBytes(ptr) ==
    IF \E m \in mapped : m.kind = "large" /\ m.addr = ptr
    THEN (CHOOSE m \in mapped : m.kind = "large" /\ m.addr = ptr).len
    ELSE (CHOOSE a \in AllArenas :
             a.base_addr <= ptr /\ ptr < a.base_addr + arena_size).block_size

\* C37: for every n > 0 the storage allocate(n) returns, a block of the
\* size class chosen or a mapping of the OS, has at least n * sizeof(T)
\* bytes, the product taken without wrap-around; also for the counts n
\* whose product exceeds the range of size_t.
C37_StorageHoldsNElements ==
    (last.op = "allocate" /\ last.ptr # NullPtr) =>
       ServedBytes(last.ptr) >= last.n * elem.size

(***************************************************************************)
(* Spec: the bump path                                                     *)
(***************************************************************************)
\* C38: while bump_offset < usable_capacity, arena::allocate returns the
\* block at bump_offset, advances bump_offset by exactly block_size and
\* leaves the L1 and L2 words and alloc_count as they are, also when freed
\* blocks are in the bitmap; and no step makes the bump_offset of an arena
\* smaller.
C38_BumpPathLeavesBitmapAlone ==
    /\ [](\A a \in AllArenas :
            a.bump_offset < usable_capacity(a.block_size) =>
               /\ arena_allocate(a).ptr = a.base_addr + a.bump_offset
               /\ arena_allocate(a).arena =
                     [a EXCEPT !.bump_offset = a.bump_offset + a.block_size])
    /\ [][\A i \in 1..num_size_classes :
             pools[i] # NoPool =>
                \A k \in 1..max_arenas :
                   pools[i].arenas[k] # NoArena =>
                      pools'[i].arenas[k].bump_offset
                         >= pools[i].arenas[k].bump_offset]_vars
\* the last call was served by the bump path of an arena that had a freed
\* block in its bitmap, and the freed block is still free
C38_Witness ==
    /\ last.op = "allocate" /\ last.path = "pool" /\ last.ptr # NullPtr
    /\ \E a \in AllArenas :
          /\ last.ptr + a.block_size = a.base_addr + a.bump_offset
          /\ FreeIndices(a) # {}
          /\ a.alloc_count = 0
          /\ last.ptr \notin {a.base_addr + b * a.block_size : b \in FreeIndices(a)}
====
